---- MODULE Spec2Model ----
(***************************************************************************)
(* sensor-vision: the MQTT request/response correlator (MqttActor) and the *)
(* sensor state actor (SensorsStateActor).                                 *)
(*                                                                         *)
(* The repository holds two revisions of the correlator:                   *)
(*   "tokio"  src/src/client/mqtt.rs: a worker task that takes commands    *)
(*            from an mpsc queue and runs each request under block_on;     *)
(*   "actix"  src/src/client/mqtt/mqtt_client.rs: an actix actor whose     *)
(*            Handler<MqttRequest> returns a ResponseFuture, which actix   *)
(*            spawns on the arbiter and does not wait for before it        *)
(*            handles the next mailbox message.                            *)
(* The variable revision selects the one a behaviour runs.                 *)
(***************************************************************************)
EXTENDS Integers, Sequences, FiniteSets, TLC

\* ------------------------------------------------------------------ bounds
NumReq == 2          \* correlated requests issued in one behaviour
MaxOneWay == 1       \* fire-and-forget commands issued in one behaviour

MaxItems == 3        \* messages (transport events and queries) sent to the state actor
MaxListed == 2       \* sensors listed in one SensorList reply

\* Events the broadcast channel retains for a receiver: broadcast::channel(100)
\* in SensorVisionClient::new, scaled down to the length of the runs.
MaxBuffered == 2

MaxTuples == 2       \* (MetricId, value) tuples in one livedata message

Req == 1..NumReq

\* Identifiers and strings the inbound messages of the model are built from.
SensorIds == {"s1", "s2"}
SensorOrder == <<"s1", "s2">>       \* Ord of SensorId: iteration order of the BTreeMap
MetricIds == {"m1", "m2", "m3"}
SensorNames == {"Temp", "Temp2"}
MetricNames == {"Celsius1", "Celsius2"}
Annotations == {"degC", "degF"}

\* ------------------------------------------------------- topic scheme (part)
\* MqttScheme variants a correlated request is issued for in this model.
ReqSchemes == {"Ping", "SensorList"}

\* MqttScheme::get_templates / get_topics for the non-parameterized variants.
get_topics(s) ==
    IF s = "Ping"
    THEN [action |-> "ping", response |-> "ping/info/inbox", error |-> "ping/error/inbox"]
    ELSE [action |-> "sensor/list", response |-> "inventory/inbox",
          error |-> "inventory/error/inbox"]

VARIABLES
    revision,     \* "tokio" | "actix" | "legacy"
    connected,    \* the request session (sv_request / sv_client) is connected
    workerAlive,  \* the mqtt_actor_loop task has not panicked
    queue,        \* mpsc channel / actor mailbox: commands not yet taken
    pc,           \* per request: position of its call
    scheme,       \* per request: the MqttScheme it was issued for
    stream,       \* per request: buffered items of the stream it got from get_stream
    streamOwner,  \* request whose stream the client's message callback feeds (0: none)
    got,          \* per request: what stream.next() returned
    subs,         \* broker-side subscriptions of the session: <<topic, request>>
    net,          \* replies the server has produced and not yet delivered
    result,       \* per request: what the caller received
    unsubCalled,  \* per request: unsubscribe_many was invoked
    lostWhile,    \* per request: the session was lost while the call was outstanding
    oneWaySent,   \* number of fire-and-forget commands issued
    \* ---- SensorsStateActor
    sensors,      \* SensorsStateActor.sensors: the StateStore
    inbox,        \* the actor's mailbox
    handling,     \* the handler in progress: the linked sensors still to merge
    msg,          \* the transport event the latest Handler<MqttEvent> call was given
    events,       \* events emitted by the handler of the latest message
    committed,    \* the store as it was when the latest handler returned
    reply,        \* what the latest handled message returned to its sender
    sent,         \* number of messages sent to the actor
    crashed,      \* a handler of the actor has panicked
    \* ---- SensorVisionClient: its state_event_loop task
    subscribed,   \* who receives the state events: the client's "loop", the "ui"
    bus,          \* events the channel retains for that receiver
    lagged,       \* the receiver missed events that were overwritten
    loopAlive,    \* the state_event_loop task is running
    loop,         \* where the loop is: in recv, or awaiting a state query
    published,    \* what fire-and-forget commands the worker has published
    owed,         \* commands an emitted event asks for, not published since
    \* ---- AppClient and its UIState actor
    uiInbox,      \* state events sent to the UI and not yet handled
    livedata,     \* UIState.livedata: (sensor, metric) -> MetricLivedataWindow
    \* ---- SensorState of client/state.rs, the revision before the actors
    topic_callbacks  \* SensorState.topic_callbacks: topic -> callback

corrVars == <<revision, connected, workerAlive, queue, pc, scheme, stream,
              streamOwner, got, subs, net, result, unsubCalled, lostWhile, oneWaySent>>

stateVars == <<sensors, inbox, handling, msg, events, committed, reply, sent, crashed>>

\* The correlator but its queue, the state actor but its mailbox.
corrRest == <<revision, connected, workerAlive, pc, scheme, stream, streamOwner, got,
              subs, net, result, unsubCalled, lostWhile, oneWaySent>>

stateRest == <<sensors, handling, msg, events, committed, reply, sent, crashed>>

loopVars == <<subscribed, bus, lagged, loopAlive, loop>>

uiVars == <<uiInbox, livedata>>

\* Where emitted events go.
busVars == <<bus, lagged, uiInbox>>

clientVars == <<loopVars, published, owed, uiVars>>

vars == <<corrVars, stateVars, clientVars, topic_callbacks>>

\* ------------------------------------------------------------------ values
NoItem == [kind |-> "none", topic |-> "", for |-> 0]
Closed == [kind |-> "closed", topic |-> "", for |-> 0]   \* stream.next() = None
Lost == [kind |-> "lost", topic |-> "", for |-> 0]       \* stream.next() = Some(None)
Msg(t, r) == [kind |-> "msg", topic |-> t, for |-> r]

NoResult == [kind |-> "none", for |-> 0]
Failure(k) == [kind |-> k, for |-> 0]

\* Positions of a call between being taken from the queue and returning.
Running == {"new", "subscribed", "published", "replied"}
\* Positions between subscribe_many and unsubscribe_many.
InFlight == {"subscribed", "published", "replied"}

response_topic(r) == get_topics(scheme[r]).response
error_topic(r) == get_topics(scheme[r]).error

\* ------------------------------------------------------------------- Init
InitCorrelator ==
    /\ revision \in {"tokio", "actix"}
    /\ connected = TRUE
    /\ workerAlive = TRUE
    /\ queue = <<>>
    /\ pc = [r \in Req |-> "idle"]
    /\ scheme = [r \in Req |-> "Ping"]
    /\ stream = [r \in Req |-> <<>>]
    /\ streamOwner = 0
    /\ got = [r \in Req |-> NoItem]
    /\ subs = {}
    /\ net = {}
    /\ result = [r \in Req |-> NoResult]
    /\ unsubCalled = [r \in Req |-> FALSE]
    /\ lostWhile = [r \in Req |-> FALSE]
    /\ oneWaySent = 0

\* ------------------------------------------------------ callers (handles)
Request(r) == [kind |-> "Request", id |-> r]
OneWay(sch, ids) == [kind |-> "OneWayMessage", id |-> 0, scheme |-> sch, ids |-> ids]
OneWayMessage == OneWay("PushValues", <<>>)

\* MqttActorHandle::request (tokio) / Addr::send(MqttRequest) (actix): the caller
\* queues the command and then awaits its one-shot reply. With the worker gone
\* the tokio send fails and the caller gets that error at once.
MqttActorHandle_request(r, s) ==
    /\ pc[r] = "idle"
    /\ \A q \in Req : q < r => pc[q] # "idle"     \* requests are numbered as issued
    /\ scheme' = [scheme EXCEPT ![r] = s]
    /\ IF revision = "tokio" /\ ~workerAlive
       THEN /\ pc' = [pc EXCEPT ![r] = "done"]
            /\ result' = [result EXCEPT ![r] = Failure("send_err")]
            /\ UNCHANGED queue
       ELSE /\ pc' = [pc EXCEPT ![r] = "queued"]
            /\ queue' = Append(queue, Request(r))
            /\ UNCHANGED result
    /\ UNCHANGED <<topic_callbacks, stateVars, clientVars, revision, connected, workerAlive, stream, streamOwner, got,
                   subs, net, unsubCalled, lostWhile, oneWaySent>>

\* MqttActorHandle::one_way_message / Addr::send(OneWayMessage): returns once queued.
one_way_message ==
    /\ oneWaySent < MaxOneWay
    /\ oneWaySent' = oneWaySent + 1
    /\ queue' = IF revision = "tokio" /\ ~workerAlive THEN queue
                ELSE Append(queue, OneWayMessage)
    /\ UNCHANGED <<topic_callbacks, stateVars, clientVars, revision, connected, workerAlive, pc, scheme, stream,
                   streamOwner, got, subs, net, result, unsubCalled, lostWhile>>

\* ------------------------------------------------- taking the next command
\* tokio: the loop is inside handle_command (block_on) until the request returns.
WorkerFree == \A r \in Req : pc[r] \notin Running

\* Whether the actor may take the next command from its queue.
MayTakeNext ==
    IF revision = "tokio" THEN workerAlive /\ WorkerFree ELSE TRUE

\* MqttActor::message: publish and wait; the error is returned.
message_ok == connected

\* mqtt_actor_loop + handle_command (tokio), Handler<..>::handle (actix), for
\* the command at the head of the queue.
\*  Request: request() starts (tokio) / the ResponseFuture is spawned (actix).
\*  OneWayMessage: published; tokio's expect("Failed to send") panics on an
\*  error, the task ends, the receiver and every queued command is dropped, and
\*  with it each queued request's respond_to sender: its caller gets RecvError.
handle_command ==
    /\ queue # <<>>
    /\ MayTakeNext
    /\ LET command == Head(queue) IN
       IF command.kind = "Request"
       THEN /\ pc' = [pc EXCEPT ![command.id] = "new"]
            /\ queue' = Tail(queue)
            /\ UNCHANGED <<stateVars, workerAlive, result, published, owed>>
       ELSE IF message_ok \/ revision = "actix"
       THEN /\ queue' = Tail(queue)
            /\ published' = IF message_ok
                             THEN published \cup {[scheme |-> command.scheme,
                                                   ids |-> command.ids]}
                             ELSE published
            /\ owed' = IF message_ok
                        THEN owed \ {[scheme |-> command.scheme, ids |-> command.ids]}
                        ELSE owed
            /\ UNCHANGED <<stateVars, workerAlive, pc, result>>
       ELSE /\ workerAlive' = FALSE
            /\ queue' = <<>>
            /\ pc' = [r \in Req |-> IF pc[r] = "queued" THEN "done" ELSE pc[r]]
            /\ result' = [r \in Req |-> IF pc[r] = "queued" THEN Failure("recv_err")
                                        ELSE result[r]]
            /\ UNCHANGED <<published, owed>>
    /\ UNCHANGED <<topic_callbacks, stateVars, loopVars, uiVars, revision, connected, scheme, stream, streamOwner,
                   got, subs, net, unsubCalled, lostWhile, oneWaySent>>

\* ---------------------------------------------- MqttActor::request, by await
\* get_stream (the client's message callback now feeds this call's stream; the
\* stream of an earlier call loses its sender) and subscribe_many(..).await?
subscribe_many(r) ==
    /\ pc[r] = "new"
    /\ streamOwner' = r
    /\ stream' = [stream EXCEPT ![r] = <<>>]
    /\ IF connected
       THEN /\ subs' = subs \cup {<<response_topic(r), r>>, <<error_topic(r), r>>}
            /\ pc' = [pc EXCEPT ![r] = "subscribed"]
            /\ UNCHANGED result
       ELSE /\ pc' = [pc EXCEPT ![r] = "done"]
            /\ result' = [result EXCEPT ![r] = Failure("transport_err")]
            /\ UNCHANGED subs
    /\ UNCHANGED <<topic_callbacks, stateVars, clientVars, revision, connected, workerAlive, queue, scheme, got, net,
                   unsubCalled, lostWhile, oneWaySent>>

\* client.publish(message).await? : on an error the call returns at once. The
\* server answers a published request with one message, on the success or on
\* the error topic of the request's scheme.
publish(r) ==
    /\ pc[r] = "subscribed"
    /\ IF connected
       THEN /\ \E t \in {response_topic(r), error_topic(r)} : net' = net \cup {Msg(t, r)}
            /\ pc' = [pc EXCEPT ![r] = "published"]
            /\ UNCHANGED result
       ELSE /\ pc' = [pc EXCEPT ![r] = "done"]
            /\ result' = [result EXCEPT ![r] = Failure("transport_err")]
            /\ UNCHANGED net
    /\ UNCHANGED <<topic_callbacks, stateVars, clientVars, revision, connected, workerAlive, queue, scheme, stream,
                   streamOwner, got, subs, unsubCalled, lostWhile, oneWaySent>>

\* Variant of StreamReady: the None a lost connection pushes does not wake the
\* waiting call.
StreamReady_IgnoresLost(r) ==
    (stream[r] # <<>> /\ Head(stream[r]).kind = "msg") \/ streamOwner # r

\* stream.next().await is ready: an item is buffered, or the stream is closed
\* because a later get_stream replaced the callback that held its sender.
StreamReady(r) == stream[r] # <<>> \/ streamOwner # r

stream_next(r) ==
    /\ pc[r] = "published"
    /\ StreamReady(r)
    /\ IF stream[r] # <<>>
       THEN /\ got' = [got EXCEPT ![r] = Head(stream[r])]
            /\ stream' = [stream EXCEPT ![r] = Tail(stream[r])]
       ELSE /\ got' = [got EXCEPT ![r] = Closed]
            /\ UNCHANGED stream
    /\ pc' = [pc EXCEPT ![r] = "replied"]
    /\ UNCHANGED <<topic_callbacks, stateVars, clientVars, revision, connected, workerAlive, queue, scheme, streamOwner,
                   subs, net, result, unsubCalled, lostWhile, oneWaySent>>

\* Variant of RequestResult: the message's topic is compared with the success
\* topic instead of the error topic.
RequestResult_ComparesSuccessTopic(r, item) ==
    IF item.kind = "closed" THEN Failure("no_payload")
    ELSE IF item.kind = "lost" THEN Failure("no_message")
    ELSE IF response_topic(r) = item.topic THEN [kind |-> "ok", for |-> item.for]
    ELSE [kind |-> "remote_err", for |-> item.for]

\* Lines 165-175 / 86-96: the outcome of a call from what stream.next() gave.
RequestResult(r, item) ==
    IF item.kind = "closed" THEN Failure("no_payload")
    ELSE IF item.kind = "lost" THEN Failure("no_message")
    ELSE IF error_topic(r) = item.topic THEN [kind |-> "remote_err", for |-> item.for]
    ELSE [kind |-> "ok", for |-> item.for]

\* client.unsubscribe_many(&topics).await? and the evaluation of the message;
\* the result goes to the caller (respond_to.send / the ResponseFuture's tx).
unsubscribe_many(r) ==
    /\ pc[r] = "replied"
    /\ unsubCalled' = [unsubCalled EXCEPT ![r] = TRUE]
    /\ pc' = [pc EXCEPT ![r] = "done"]
    /\ IF connected
       THEN /\ subs' = {p \in subs : p[1] \notin {response_topic(r), error_topic(r)}}
            /\ result' = [result EXCEPT ![r] = RequestResult(r, got[r])]
       ELSE /\ result' = [result EXCEPT ![r] = Failure("transport_err")]
            /\ UNCHANGED subs
    /\ UNCHANGED <<topic_callbacks, stateVars, clientVars, revision, connected, workerAlive, queue, scheme, stream,
                   streamOwner, got, net, lostWhile, oneWaySent>>

\* ------------------------------------------------------------- environment
Subscribed(t) == \E p \in subs : p[1] = t

\* The broker delivers a reply: to the session if it is subscribed to the
\* topic, and from there to the stream the callback feeds, if its receiver
\* still exists.
Deliver(m) ==
    /\ m \in net
    /\ net' = net \ {m}
    /\ IF Subscribed(m.topic) /\ streamOwner # 0 /\ pc[streamOwner] \in Running
       THEN stream' = [stream EXCEPT ![streamOwner] = Append(@, m)]
       ELSE UNCHANGED stream
    /\ UNCHANGED <<topic_callbacks, stateVars, clientVars, revision, connected, workerAlive, queue, pc, scheme,
                   streamOwner, got, subs, result, unsubCalled, lostWhile, oneWaySent>>

\* The connection is lost: the client pushes None into the current stream, and
\* nothing the server still holds reaches the session any more.
Disconnect ==
    /\ connected
    /\ connected' = FALSE
    /\ net' = {}
    /\ IF streamOwner # 0 /\ pc[streamOwner] \in Running
       THEN stream' = [stream EXCEPT ![streamOwner] = Append(@, Lost)]
       ELSE UNCHANGED stream
    /\ lostWhile' = [r \in Req |-> pc[r] = "published" /\ stream[r] = <<>>]
    /\ UNCHANGED <<topic_callbacks, stateVars, clientVars, revision, workerAlive, queue, pc, scheme, streamOwner, got,
                   subs, result, unsubCalled, oneWaySent>>

\* =====================================================================
\* SensorsStateActor (client/state/sensors_state.rs, state_queries.rs).
\* The actix actor owns the StateStore and handles the messages of its mailbox
\* one at a time. The earlier revision (client/state.rs) keeps the same store
\* behind an RwLock and runs the same merge under the write lock, so a reader
\* is admitted only between two messages as well.
\* =====================================================================

\* ------------------------------------------------------------ model/sensor.rs
\* Metric::Predefined { name, metric_id, value_unit } /
\* Metric::Custom { name, metric_id, value_annotation, value_type }: only Custom
\* carries a value annotation and a value type, only Predefined a value unit.
Metric(id, n, v, a) ==
    [metric_id |-> id, name |-> n, variant |-> v, value_annotation |-> a,
     value_type |-> IF v = "Custom" THEN "double" ELSE "",
     value_unit |-> IF v = "Predefined" THEN "SI.Temperature.CELSIUS" ELSE ""]

\* The same metric of another ValueType or ValueUnit.
Retyped(metric) ==
    [metric EXCEPT
        !.value_type = IF metric.variant = "Custom" THEN "integer" ELSE "",
        !.value_unit = IF metric.variant = "Predefined"
                       THEN "SI.ElectricCurrent.AMPERE" ELSE ""]

\* Sensor<Metric>; for Sensor<LinkedMetric> `metrics` is the set of linked ids,
\* the only way the state actor reads that list.
Sensor(id, n, ms) == [sensor_id |-> id, name |-> n, metrics |-> ms]

EmptyStore == [s \in {} |-> Sensor("", "", <<>>)]

metric_ids(ms) == {ms[i].metric_id : i \in DOMAIN ms}

\* BTreeMap::insert / BTreeMap::remove
insert_Only(store, id, sn) == [x \in {id} |-> sn]

insert_IfPresent(store, id, sn) ==
    [x \in DOMAIN store |-> IF x = id THEN sn ELSE store[x]]

insert(store, id, sn) ==
    [x \in (DOMAIN store) \cup {id} |-> IF x = id THEN sn ELSE store[x]]

remove(store, id) == [x \in (DOMAIN store) \ {id} |-> store[x]]

\* ------------------------------------------------------ SensorStateEvent
NewLinkedSensorLoaded(ls) == [type |-> "NewLinkedSensorLoaded", sensor |-> ls]
ExistingLinkedSensorLoaded(ls) == [type |-> "ExistingLinkedSensorLoaded", sensor |-> ls]
NewMetricLoaded(s, m) == [type |-> "NewMetricLoaded", sensor_id |-> s, metric |-> m]
NewSensorCreated(sn) == [type |-> "NewSensorCreated", sensor |-> sn]
NewMetricCreated(s, m) == [type |-> "NewMetricCreated", sensor_id |-> s, metric_id |-> m]
Livedata(s, m, v, ts) ==
    [type |-> "Livedata", sensor_id |-> s, metric_id |-> m, value |-> v, timestamp |-> ts]
SensorUpdated(s) == [type |-> "SensorUpdated", sensor_id |-> s]
SensorMetricsUpdated(s) == [type |-> "SensorMetricsUpdated", sensor_id |-> s]
SensorDeleted(s) == [type |-> "SensorDeleted", sensor_id |-> s]
MetricDeleted(s, m) == [type |-> "MetricDeleted", sensor_id |-> s, metric_id |-> m]
SensorNameChanged(s, n) == [type |-> "SensorNameChanged", sensor_id |-> s, name |-> n]
MetricNameChanged(s, m, n) ==
    [type |-> "MetricNameChanged", sensor_id |-> s, metric_id |-> m, name |-> n]
MetricValueAnnotationChanged(s, m, a) ==
    [type |-> "MetricValueAnnotationChanged", sensor_id |-> s, metric_id |-> m,
     annotation |-> a]

\* --------------------------------------------------- inbound MqttEvent
\* A transport event after extract_ids_and_pattern: the scheme of its response
\* topic, the ids of the topic and the parsed body (a list of linked sensors, a
\* sensor, a metric or a plain text).
\* `on` tells the topic it came on: the scheme's "response" or "error" topic, a
\* topic "unknown" to the reverse index or one "short" of the connector prefix;
\* `body` whether the text deserialized ("parsed") or not ("malformed").
MqttEvent(sch, ids, list, sn, m, text) ==
    [type |-> "MqttEvent", scheme |-> sch, ids |-> ids, list |-> list,
     sensor |-> sn, metric |-> m, text |-> text,
     on |-> "response", body |-> "parsed", code |-> 0]

NoSensor == Sensor("", "", <<>>)
NoMetric == Metric("", "", "", "")
NoMsg == MqttEvent("none", <<>>, <<>>, NoSensor, NoMetric, "")

\* A reply whose body does not deserialize as what its handler reads.
Malformed(sch, ids) ==
    [MqttEvent(sch, ids, <<>>, NoSensor, NoMetric, "{") EXCEPT !.body = "malformed"]

\* A message on the error topic of a scheme: an ErrorResponse { message, code }
\* or a body that is none.
ErrorReply(sch, ids, message, code) ==
    [MqttEvent(sch, ids, <<>>, NoSensor, NoMetric, message) EXCEPT
        !.on = "error", !.code = code]

MalformedErrorReply(sch, ids) ==
    [MqttEvent(sch, ids, <<>>, NoSensor, NoMetric, "{") EXCEPT
        !.on = "error", !.body = "malformed"]

\* A topic under the subscription that no scheme renders, and the connector's
\* own level /v1.0/<connector>, which the filter /v1.0/<connector>/# matches too.
UnknownTopic == [NoMsg EXCEPT !.on = "unknown"]
ShortTopic == [NoMsg EXCEPT !.on = "short"]

\* SensorStateEvent::Error { message, code }
Error(message, code) == [type |-> "Error", message |-> message, code |-> code]

\* ---------------------------------------------------------- event_sensor_list
\* existing_metric_ids.sub(&linked_metric_ids)
deleted_metric_ids_Swapped(existing_sensor, linked_sensor) ==
    linked_sensor.metrics \ metric_ids(existing_sensor.metrics)

deleted_metric_ids(existing_sensor, linked_sensor) ==
    metric_ids(existing_sensor.metrics) \ linked_sensor.metrics

\* The orders in which a HashSet may hand out its elements.
Orders(S) ==
    {o \in [1..Cardinality(S) -> S] :
        \A i, j \in 1..Cardinality(S) : o[i] = o[j] => i = j}

\* metrics.iter().filter(|m| deleted_metric_id != *m.metric_id()).collect()
filter(ms, deleted_metric_id) ==
    SelectSeq(ms, LAMBDA m : m.metric_id # deleted_metric_id)

RECURSIVE remove_deleted(_, _)
remove_deleted(ms, order) ==
    IF order = <<>> THEN ms
    ELSE remove_deleted(filter(ms, Head(order)), Tail(order))

\* The else branch taken for every listed sensor.
merge_linked_sensor_AlwaysInserts(store, ls, order) ==
    [sensors |-> insert(store, ls.sensor_id, Sensor(ls.sensor_id, ls.name, <<>>)),
     events |-> <<NewLinkedSensorLoaded(ls)>>]

\* One iteration of `for linked_sensor in linked_sensors`: the new store and
\* the events it emits, the deleted ids being visited in `order`.
\* merge_linked_sensor that announces a known sensor only if the merge changed it.
merge_linked_sensor_OnlyIfChanged(store, ls, order) ==
    IF ls.sensor_id \in DOMAIN store
    THEN LET existing_sensor == store[ls.sensor_id]
             merged == [existing_sensor EXCEPT
                           !.name = ls.name,
                           !.metrics = remove_deleted(existing_sensor.metrics, order)]
             changes ==
                 (IF existing_sensor.name # ls.name
                  THEN <<SensorNameChanged(ls.sensor_id, ls.name)>> ELSE <<>>)
                 \o [i \in 1..Len(order) |-> MetricDeleted(ls.sensor_id, order[i])]
         IN [sensors |-> [store EXCEPT ![ls.sensor_id] = merged],
             events |-> IF changes = <<>> THEN <<>>
                        ELSE changes \o <<ExistingLinkedSensorLoaded(ls)>>]
    ELSE [sensors |-> insert(store, ls.sensor_id, Sensor(ls.sensor_id, ls.name, <<>>)),
          events |-> <<NewLinkedSensorLoaded(ls)>>]

merge_linked_sensor(store, ls, order) ==
    IF ls.sensor_id \in DOMAIN store
    THEN LET existing_sensor == store[ls.sensor_id]
             merged == [existing_sensor EXCEPT
                           !.name = ls.name,
                           !.metrics = remove_deleted(existing_sensor.metrics, order)]
         IN [sensors |-> [store EXCEPT ![ls.sensor_id] = merged],
             events |->
                 (IF existing_sensor.name # ls.name
                  THEN <<SensorNameChanged(ls.sensor_id, ls.name)>> ELSE <<>>)
                 \o [i \in 1..Len(order) |-> MetricDeleted(ls.sensor_id, order[i])]
                 \o <<ExistingLinkedSensorLoaded(ls)>>]
    ELSE [sensors |-> insert(store, ls.sensor_id, Sensor(ls.sensor_id, ls.name, <<>>)),
          events |-> <<NewLinkedSensorLoaded(ls)>>]

\* ----------------------------------------------- the other event_* functions
\* The event emitted, the sensor not stored.
event_sensor_create_OnlyEvent(store, e) ==
    [sensors |-> store, events |-> <<NewSensorCreated(e.sensor)>>]

event_sensor_create(store, e) ==
    [sensors |-> insert(store, e.sensor.sensor_id, e.sensor),
     events |-> <<NewSensorCreated(e.sensor)>>]

event_sensor_update(store, e) ==
    [sensors |-> store,
     events |-> IF e.ids # <<>> /\ e.text = "Sensor was changed."
                THEN <<SensorUpdated(e.ids[Len(e.ids)])>> ELSE <<>>]

\* The event emitted, the sensor kept.
event_sensor_delete_OnlyEvent(store, e) ==
    [sensors |-> store,
     events |-> IF e.ids # <<>> /\ e.text = "Sensor was deleted."
                THEN <<SensorDeleted(e.ids[Len(e.ids)])>> ELSE <<>>]

event_sensor_delete(store, e) ==
    IF e.ids # <<>> /\ e.text = "Sensor was deleted."
    THEN [sensors |-> remove(store, e.ids[Len(e.ids)]),
          events |-> <<SensorDeleted(e.ids[Len(e.ids)])>>]
    ELSE [sensors |-> store, events |-> <<>>]

\* The cached metric replaced by the described one.
event_metric_describe_Replaces(store, e) ==
    IF Len(e.ids) < 2 \/ e.ids[1] \notin DOMAIN store
    THEN [sensors |-> store, events |-> <<>>]
    ELSE LET found == {i \in DOMAIN store[e.ids[1]].metrics :
                          store[e.ids[1]].metrics[i].metric_id = e.ids[2]}
         IN IF found # {}
            THEN LET k == CHOOSE i \in found : \A j \in found : i <= j IN
                 [sensors |-> [store EXCEPT ![e.ids[1]].metrics[k] = e.metric],
                  events |-> IF store[e.ids[1]].metrics[k].name # e.metric.name
                             THEN <<MetricNameChanged(e.ids[1], e.ids[2], e.metric.name)>>
                             ELSE <<>>]
            ELSE [sensors |-> [store EXCEPT ![e.ids[1]].metrics = Append(@, e.metric)],
                  events |-> <<NewMetricLoaded(e.ids[1], e.metric)>>]

\* The described metric pushed without looking for it.
event_metric_describe_AlwaysAppends(store, e) ==
    IF Len(e.ids) < 2 \/ e.ids[1] \notin DOMAIN store
    THEN [sensors |-> store, events |-> <<>>]
    ELSE [sensors |-> [store EXCEPT ![e.ids[1]].metrics = Append(@, e.metric)],
          events |-> <<NewMetricLoaded(e.ids[1], e.metric)>>]

event_metric_describe(store, e) ==
    IF Len(e.ids) < 2 \/ e.ids[1] \notin DOMAIN store
    THEN [sensors |-> store, events |-> <<>>]
    ELSE LET sensor_id == e.ids[1]
             metric_id == e.ids[2]
             described_metric == e.metric
             sensor == store[sensor_id]
             found == {i \in DOMAIN sensor.metrics :
                          sensor.metrics[i].metric_id = metric_id}
         IN IF found # {}
            THEN LET k == CHOOSE i \in found : \A j \in found : i <= j
                     existing_metric == sensor.metrics[k]
                     renamed == existing_metric.name # described_metric.name
                     annotated ==
                         /\ existing_metric.variant = "Custom"
                         /\ described_metric.variant = "Custom"
                         /\ existing_metric.value_annotation
                                # described_metric.value_annotation
                     updated ==
                         [existing_metric EXCEPT
                            !.name = described_metric.name,
                            !.value_annotation =
                                IF annotated THEN described_metric.value_annotation
                                ELSE @]
                 IN [sensors |->
                        [store EXCEPT ![sensor_id].metrics[k] = updated],
                     events |->
                        (IF renamed
                         THEN <<MetricNameChanged(sensor_id, metric_id,
                                                  described_metric.name)>>
                         ELSE <<>>)
                        \o (IF annotated
                            THEN <<MetricValueAnnotationChanged(
                                      sensor_id, metric_id,
                                      described_metric.value_annotation)>>
                            ELSE <<>>)]
            ELSE [sensors |->
                     [store EXCEPT ![sensor_id].metrics =
                                       Append(@, described_metric)],
                  events |-> <<NewMetricLoaded(sensor_id, described_metric)>>]

event_metric_update(store, e) ==
    [sensors |-> store,
     events |-> IF e.ids # <<>> /\ e.text = "All metrics were successfully modified."
                THEN <<SensorMetricsUpdated(e.ids[Len(e.ids)])>> ELSE <<>>]

\* The acknowledgement taken for the one of a metric update.
event_metric_delete_AsUpdate(store, e) ==
    [sensors |-> store,
     events |-> IF e.ids # <<>> /\ e.text = "All metrics were successfully deleted."
                THEN <<SensorMetricsUpdated(e.ids[Len(e.ids)])>> ELSE <<>>]

event_metric_delete(store, e) ==
    [sensors |-> store,
     events |-> IF e.ids # <<>> /\ e.text = "All metrics were successfully deleted."
                THEN <<SensorUpdated(e.ids[Len(e.ids)])>> ELSE <<>>]

event_ping(store, e) == [sensors |-> store, events |-> <<>>]

\* CreateMetricResponsePayload { matching_id, metric_id }
CreateMetricResponsePayload(k, m) == [matching_id |-> k, metric_id |-> m]

event_metric_create(store, e) ==
    [sensors |-> store,
     events |-> IF e.ids # <<>>
                THEN [k \in DOMAIN e.list |->
                        NewMetricCreated(e.ids[Len(e.ids)], e.list[k].metric_id)]
                ELSE <<>>]

\* enum MetricValue: Integer(i64) | Double(f64) | String(String) | Boolean(bool)
Integer(v) == [variant |-> "Integer", number |-> v, text |-> "", flag |-> FALSE]
Double(v) == [variant |-> "Double", number |-> v, text |-> "", flag |-> FALSE]
String(s) == [variant |-> "String", number |-> 0, text |-> s, flag |-> FALSE]
Boolean(b) == [variant |-> "Boolean", number |-> 0, text |-> "", flag |-> b]

\* Option<u64>
NoTimestamp == [some |-> FALSE, value |-> 0]
Some(v) == [some |-> TRUE, value |-> v]

\* PushMetricValueResponse { metric_id, value }
PushMetricValueResponse(m, v) == [metric_id |-> m, value |-> v]

\* A message on sensor/:mqttid:/livedata: MetricsArrayResponse { metrics,
\* timestamp: Option<u64> }.
LivedataMessage(s, l, ts) ==
    [type |-> "MqttEvent", scheme |-> "Livedata", ids |-> <<s>>, list |-> l,
     sensor |-> NoSensor, metric |-> NoMetric, text |-> "",
     on |-> "response", body |-> "parsed", code |-> 0, timestamp |-> ts]

\* A livedata message whose body does not deserialize.
MalformedLivedata(s) ==
    [LivedataMessage(s, <<>>, NoTimestamp) EXCEPT !.body = "malformed", !.text = "{"]

\* msg.topic[39..] of a topic shorter than the prefix, and
\* value_updates.timestamp.unwrap() inside the loop over value_updates.metrics
panics(e) ==
    \/ e.on = "short"
    \/ /\ e.scheme = "Livedata"
       /\ e.on = "response"
       /\ e.body = "parsed"
       /\ e.ids # <<>>
       /\ e.list # <<>>
       /\ ~e.timestamp.some

event_livedata(store, e) ==
    [sensors |-> store,
     events |-> IF e.ids # <<>>
                THEN [k \in DOMAIN e.list |->
                        Livedata(e.ids[Len(e.ids)], e.list[k].metric_id, e.list[k].value,
                                 e.timestamp.value)]
                ELSE <<>>]

\* `match scheme` of Handler<MqttEvent>, for the schemes whose handler is one
\* straight-line function (SensorList is stepped through below).
dispatch(store, e) ==
    CASE e.scheme = "SensorCreate" -> event_sensor_create(store, e)
      [] e.scheme = "SensorUpdate" -> event_sensor_update(store, e)
      [] e.scheme = "SensorDelete" -> event_sensor_delete(store, e)
      [] e.scheme = "MetricDescribe" -> event_metric_describe(store, e)
      [] e.scheme = "MetricCreate" -> event_metric_create(store, e)
      [] e.scheme = "Livedata" -> event_livedata(store, e)
      [] e.scheme = "MetricUpdate" -> event_metric_update(store, e)
      [] e.scheme = "MetricDelete" -> event_metric_delete(store, e)
      [] OTHER -> event_ping(store, e)

\* ------------------------------------------------------------------ scheme.rs
\* A topic is the sequence of its levels. A level is literal text or the 32 hex
\* digits of an identifier (Uuid::as_simple), which is what [a-f0-9]{32} matches.
Lit(text) == [kind |-> "lit", text |-> text]
Hex(id) == [kind |-> "hex", text |-> id]

Nil == "nil"

\* impl From<MqttId> for String: the nil identifier is the wildcard "+"
MqttId_into_String(id) == IF id = Nil THEN Lit("+") ELSE Hex(id)

\* impl Into<MqttId> for &str: Uuid::parse_str
str_into_MqttId(level) == level.text

Levels(texts) == [i \in DOMAIN texts |-> Lit(texts[i])]

\* MqttScheme::iter(), in declaration order
MqttScheme ==
    <<"SensorList", "SensorCreate", "SensorUpdate", "SensorDelete", "MetricDescribe",
      "MetricCreate", "MetricUpdate", "MetricDelete", "PushValues", "Ping">>

\* #[strum(props(path, response, error))] / MqttScheme::get_templates
get_templates(variant) ==
    CASE variant = "SensorList" ->
            [path |-> Levels(<<"sensor", "list">>),
             response |-> Levels(<<"inventory", "inbox">>),
             error |-> Levels(<<"inventory", "error", "inbox">>)]
      [] variant = "SensorCreate" ->
            [path |-> Levels(<<"sensor", "create">>),
             response |-> Levels(<<"sensor", "inbox">>),
             error |-> Levels(<<"sensor", "error", "inbox">>)]
      [] variant = "SensorUpdate" ->
            [path |-> Levels(<<"sensor", ":mqttid:", "update">>),
             response |-> Levels(<<"sensor", ":mqttid:", "update", "info", "inbox">>),
             error |-> Levels(<<"sensor", ":mqttid:", "update", "error", "inbox">>)]
      [] variant = "SensorDelete" ->
            [path |-> Levels(<<"sensor", ":mqttid:", "delete">>),
             response |-> Levels(<<"sensor", ":mqttid:", "delete", "info", "inbox">>),
             error |-> Levels(<<"sensor", ":mqttid:", "delete", "error", "inbox">>)]
      [] variant = "MetricDescribe" ->
            [path |-> Levels(<<"sensor", ":mqttid:", "metric", ":mqttid:", "inventory">>),
             response |-> Levels(<<"sensor", ":mqttid:", "metric", ":mqttid:",
                                   "inventory", "inbox">>),
             error |-> Levels(<<"sensor", ":mqttid:", "metric", ":mqttid:",
                                "inventory", "error", "inbox">>)]
      [] variant = "MetricCreate" ->
            [path |-> Levels(<<"sensor", ":mqttid:", "metric", "create">>),
             response |-> Levels(<<"sensor", ":mqttid:", "metric", "inbox">>),
             error |-> Levels(<<"sensor", ":mqttid:", "metric", "error", "inbox">>)]
      [] variant = "MetricUpdate" ->
            [path |-> Levels(<<"sensor", ":mqttid:", "metric", "update">>),
             response |-> Levels(<<"sensor", ":mqttid:", "metric", "update", "info", "inbox">>),
             error |-> Levels(<<"sensor", ":mqttid:", "metric", "update", "error", "inbox">>)]
      [] variant = "MetricDelete" ->
            [path |-> Levels(<<"sensor", ":mqttid:", "metric", "delete">>),
             response |-> Levels(<<"sensor", ":mqttid:", "metric", "delete", "info", "inbox">>),
             error |-> Levels(<<"sensor", ":mqttid:", "metric", "delete", "error", "inbox">>)]
      [] variant = "PushValues" ->
            [path |-> Levels(<<"sensor", ":mqttid:", "metric", "pushValues">>),
             response |-> Levels(<<"sensor", ":mqttid:", "info", "inbox">>),
             error |-> Levels(<<"sensor", ":mqttid:", "error", "inbox">>)]
      [] OTHER ->
            [path |-> Levels(<<"ping">>),
             response |-> Levels(<<"ping", "info", "inbox">>),
             error |-> Levels(<<"ping", "error", "inbox">>)]

\* render_topic that fills the placeholders from the last to the first.
RECURSIVE render_topic_FromLast(_, _)
render_topic_FromLast(template, args) ==
    IF args = <<>> THEN template
    ELSE LET at == {i \in DOMAIN template : template[i] = Lit(":mqttid:")}
         IN IF at = {} THEN template
            ELSE LET last == CHOOSE i \in at : \A j \in at : j <= i
                 IN render_topic_FromLast(
                        [template EXCEPT ![last] = MqttId_into_String(Head(args))],
                        Tail(args))

\* MqttScheme::render_topic: result.replacen(":mqttid:", arg, 1) for each arg
RECURSIVE render_topic(_, _)
render_topic(template, args) ==
    IF args = <<>> THEN template
    ELSE LET at == {i \in DOMAIN template : template[i] = Lit(":mqttid:")}
         IN IF at = {} THEN template
            ELSE LET first == CHOOSE i \in at : \A j \in at : i <= j
                 IN render_topic([template EXCEPT ![first] = MqttId_into_String(Head(args))],
                                 Tail(args))

\* get_topics that renders the error topic from the response template.
MqttScheme_get_topics_ErrorFromResponse(variant, ids) ==
    LET templates == get_templates(variant) IN
    IF variant \in {"SensorList", "SensorCreate", "Ping"}
    THEN [templates EXCEPT !.error = templates.response]
    ELSE [path |-> render_topic(templates.path, ids),
          response |-> render_topic(templates.response, ids),
          error |-> render_topic(templates.response, ids)]

\* MqttScheme::get_topics: the identifiers the variant carries are rendered into
\* its three templates.
MqttScheme_get_topics(variant, ids) ==
    LET templates == get_templates(variant) IN
    IF variant \in {"SensorList", "SensorCreate", "Ping"}
    THEN templates
    ELSE [path |-> render_topic(templates.path, ids),
          response |-> render_topic(templates.response, ids),
          error |-> render_topic(templates.error, ids)]

\* The levels the regex /([a-f0-9]{32})/ matches, left to right: a level of hex
\* digits between two slashes, the slash before it not taken by the match
\* before.
RECURSIVE matches(_, _, _)
matches(topic, i, taken) ==
    IF i > Len(topic) THEN {}
    ELSE IF topic[i].kind = "hex" /\ 1 < i /\ i < Len(topic) /\ ~taken
         THEN {i} \cup matches(topic, i + 1, TRUE)
         ELSE matches(topic, i + 1, FALSE)

\* The elements of a set of positions of a sequence, in their order.
RECURSIVE Picked(_, _)
Picked(topic, at) ==
    IF at = {} THEN <<>>
    ELSE LET first == CHOOSE i \in at : \A j \in at : i <= j
         IN <<str_into_MqttId(topic[first])>> \o Picked(topic, at \ {first})

\* MqttScheme::extract_ids_and_pattern
extract_ids_and_pattern(topic) ==
    LET at == matches(topic, 1, FALSE) IN
    [mqtt_ids |-> Picked(topic, at),
     pattern |-> [i \in DOMAIN topic |-> IF i \in at THEN Lit(":mqttid:") ELSE topic[i]]]

\* SensorsStateActor::new / init_scheme: the response and the error template of
\* every scheme inserted in turn, a later insert replacing an earlier one of the
\* same key.
RECURSIVE init_scheme(_, _)
init_scheme(topic_schemes, i) ==
    IF i > Len(MqttScheme) THEN topic_schemes
    ELSE LET variant == MqttScheme[i]
             templates == get_templates(variant)
         IN init_scheme([p \in (DOMAIN topic_schemes)
                               \cup {templates.response, templates.error} |->
                            IF p \in {templates.response, templates.error}
                            THEN variant ELSE topic_schemes[p]],
                        i + 1)

topic_schemes == init_scheme(<<>>, 1)

LivedataPattern == Levels(<<"sensor", ":mqttid:", "livedata">>)

\* Handler<MqttEvent>::handle, its first lines: the scheme, the identifiers and
\* the kind of topic of a message are read from its topic. `m.topic` is the
\* topic behind the connector prefix.
received(m) ==
    IF "topic" \notin DOMAIN m THEN m
    ELSE LET parsed == extract_ids_and_pattern(m.topic) IN
         IF parsed.pattern = LivedataPattern
         THEN [m EXCEPT !.scheme = "Livedata", !.ids = parsed.mqtt_ids, !.on = "response"]
         ELSE IF parsed.pattern \in DOMAIN topic_schemes
         THEN LET variant == topic_schemes[parsed.pattern] IN
              [m EXCEPT !.scheme = variant, !.ids = parsed.mqtt_ids,
                        !.on = IF get_templates(variant).response # parsed.pattern
                               THEN "error" ELSE "response"]
         ELSE [m EXCEPT !.ids = parsed.mqtt_ids, !.on = "unknown"]

\* A message as the broker delivers it on `topic`. `rendered` remembers what the
\* topic was rendered from.
OnTopic(topic, variant, ids, which) ==
    [type |-> "MqttEvent", scheme |-> "none", ids |-> <<>>, list |-> <<>>,
     sensor |-> NoSensor, metric |-> NoMetric, text |-> "{",
     on |-> "response", body |-> "malformed", code |-> 0,
     topic |-> topic,
     rendered |-> [scheme |-> variant, ids |-> ids, which |-> which]]

\* The schemes whose handler deserializes the body before anything else.
Deserializing == {"SensorList", "SensorCreate", "MetricDescribe", "MetricCreate", "Livedata"}

\* Handler<MqttEvent>::handle around `match scheme`: a topic no scheme renders
\* is passed over; a message on an error topic gives an Error event if its body
\* is an ErrorResponse and a log line if not; an Err of the scheme's handler is
\* logged.
handle(store, e) ==
    IF e.on = "unknown" THEN [sensors |-> store, events |-> <<>>]
    ELSE IF e.on = "error"
    THEN [sensors |-> store,
          events |-> IF e.body = "parsed" THEN <<Error(e.text, e.code)>> ELSE <<>>]
    ELSE IF e.body = "malformed" /\ e.scheme \in Deserializing
    THEN [sensors |-> store, events |-> <<>>]
    ELSE dispatch(store, e)

\* The message is a SensorList reply whose list event_sensor_list goes through.
steps(e) == e.scheme = "SensorList" /\ e.on = "response" /\ e.body = "parsed"

\* --------------------------------------------------------- state_queries.rs
None == "None"

GetStateSnapshot(store) == store

GetMetricIds(store, sensor_id) ==
    IF sensor_id \in DOMAIN store
    THEN [some |-> TRUE, ids |-> metric_ids(store[sensor_id].metrics)]
    ELSE [some |-> FALSE, ids |-> {}]

\* self.sensors.iter().find(..): the first match in key order
GetSensorIdByName(store, sensor_name) ==
    LET hits == {i \in DOMAIN SensorOrder :
                    /\ SensorOrder[i] \in DOMAIN store
                    /\ store[SensorOrder[i]].name = sensor_name}
    IN IF hits = {} THEN None
       ELSE SensorOrder[CHOOSE i \in hits : \A j \in hits : i <= j]

GetMetricIdByName(store, sensor_id, name) ==
    IF sensor_id \notin DOMAIN store THEN None
    ELSE LET ms == store[sensor_id].metrics
             hits == {i \in DOMAIN ms : ms[i].name = name}
         IN IF hits = {} THEN None
            ELSE ms[CHOOSE i \in hits : \A j \in hits : i <= j].metric_id

Query(q, sensor_id, name) ==
    [type |-> "Query", q |-> q, sensor_id |-> sensor_id, name |-> name]

answer(store, item) ==
    CASE item.q = "GetStateSnapshot" -> GetStateSnapshot(store)
      [] item.q = "GetMetricIds" -> GetMetricIds(store, item.sensor_id)
      [] item.q = "GetSensorIdByName" -> GetSensorIdByName(store, item.name)
      [] OTHER -> GetMetricIdByName(store, item.sensor_id, item.name)

NoReply == [q |-> "none"]

\* ------------------------------------------------ what arrives in the model
Seqs(S, n) == UNION {[1..k -> S] : k \in 1..n}

\* Mailbox runs: a small alphabet, long runs.
InboxLinked == {Sensor(s, "Temp", {}) : s \in SensorIds}

InboxEvents ==
    {MqttEvent("SensorList", <<>>, l, NoSensor, NoMetric, "") :
        l \in Seqs(InboxLinked, MaxListed)}
    \cup {MqttEvent("SensorCreate", <<>>, <<>>, Sensor(s, n, <<>>), NoMetric, "") :
             s \in SensorIds, n \in SensorNames}
    \cup {MqttEvent("SensorDelete", <<s>>, <<>>, NoSensor, NoMetric,
                    "Sensor was deleted.") : s \in SensorIds}
    \cup {MqttEvent("MetricDescribe", <<s, m>>, <<>>, NoSensor,
                    Metric(m, "Celsius1", "Custom", "degC"), "") :
             s \in SensorIds, m \in {"m1", "m2"}}

InboxQueries ==
    {Query("GetStateSnapshot", "", "")}
    \cup {Query("GetMetricIds", s, "") : s \in SensorIds}
    \cup {Query("GetSensorIdByName", "", n) : n \in SensorNames}
    \cup {Query("GetMetricIdByName", s, "Celsius1") : s \in SensorIds}

\* Single messages against a seeded store: the full alphabet.
SeedMetric(m) == Metric(m, "Celsius1", "Custom", "degC")

DistinctSeqs(S) ==
    {l \in Seqs(S, Cardinality(S)) \cup {<<>>} :
        \A i, j \in DOMAIN l : l[i] = l[j] => i = j}

SeedStores ==
    LET first == {EmptyStore}
                 \cup {insert(EmptyStore, "s1",
                              Sensor("s1", n, [i \in DOMAIN l |-> SeedMetric(l[i])])) :
                          n \in SensorNames, l \in DistinctSeqs(MetricIds)}
        second == {<<>>, <<"m3", "m1">>}
    IN first
       \cup {insert(st, "s2", Sensor("s2", "Temp2", [i \in DOMAIN l |-> SeedMetric(l[i])])) :
                st \in first, l \in second}

LinkedSensors ==
    {Sensor(s, n, ms) : s \in SensorIds, n \in SensorNames,
                        ms \in {{}, {"m2"}, {"m1", "m3"}, MetricIds}}

\* Bodies of metric creation acknowledgements: the matching ids in and out of
\* order and repeated, a metric id named twice, the empty array.
CreatedLists ==
    {<<>>}
    \cup Seqs({CreateMetricResponsePayload(k, m) : k \in 1..2, m \in {"m1", "m2"}}, 2)

\* Messages that are no well-formed reply: bodies that do not deserialize,
\* messages on error topics, topics outside the scheme.
SchemeIds(sch) ==
    CASE sch \in {"SensorList", "SensorCreate", "Ping"} -> {<<>>}
      [] sch = "MetricDescribe" -> {<<s, m>> : s \in SensorIds, m \in {"m1"}}
      [] OTHER -> {<<s>> : s \in SensorIds}

ErrorSchemes == {"SensorList", "SensorCreate", "SensorUpdate", "SensorDelete",
                 "MetricDescribe", "MetricCreate", "MetricUpdate", "MetricDelete",
                 "PushValues", "Ping"}

FaultyEvents ==
    UNION {{Malformed(sch, ids) : ids \in SchemeIds(sch)} :
                  sch \in Deserializing \ {"Livedata"}}
    \cup {MalformedLivedata(s) : s \in SensorIds}
    \cup {LivedataMessage(s, <<PushMetricValueResponse("m1", Integer(5))>>, NoTimestamp) :
             s \in SensorIds}
    \cup UNION {{ErrorReply(sch, ids, "Sensor not found", 404) : ids \in SchemeIds(sch)} :
                  sch \in ErrorSchemes}
    \cup UNION {{MalformedErrorReply(sch, ids) : ids \in SchemeIds(sch)} :
                  sch \in ErrorSchemes}
    \cup {UnknownTopic, ShortTopic}

\* Describe replies whose body names another metric than their topic does.
Misdescribed ==
    {MqttEvent("MetricDescribe", <<s, m>>, <<>>, NoSensor,
               Metric(b, "Celsius1", "Custom", "degC"), "") :
        s \in SensorIds, m \in MetricIds, b \in MetricIds} \ 
    {MqttEvent("MetricDescribe", <<s, m>>, <<>>, NoSensor,
               Metric(m, "Celsius1", "Custom", "degC"), "") :
        s \in SensorIds, m \in MetricIds}

ReconcileEvents ==
    {MqttEvent("SensorList", <<>>, l, NoSensor, NoMetric, "") :
        l \in Seqs(LinkedSensors, MaxListed) \cup {<<>>}}
    \cup {MqttEvent("SensorCreate", <<>>, <<>>, Sensor(s, n, <<>>), NoMetric, "") :
             s \in SensorIds, n \in SensorNames}
    \cup {MqttEvent(sch, <<s>>, <<>>, NoSensor, NoMetric, t) :
             sch \in {"SensorUpdate", "SensorDelete", "MetricUpdate", "MetricDelete"},
             s \in SensorIds,
             t \in {"Sensor was changed.", "Sensor was deleted.",
                    "All metrics were successfully modified.",
                    "All metrics were successfully deleted."}}
    \cup {MqttEvent("MetricDescribe", <<s, m>>, <<>>, NoSensor,
                    Metric(m, n, "Custom", a), "") :
             s \in SensorIds, m \in MetricIds, n \in MetricNames, a \in Annotations}
    \cup {MqttEvent("MetricDescribe", <<s, m>>, <<>>, NoSensor,
                    Metric(m, n, "Predefined", ""), "") :
             s \in SensorIds, m \in MetricIds, n \in MetricNames}
    \cup {MqttEvent("MetricDescribe", <<s, m>>, <<>>, NoSensor,
                    Retyped(Metric(m, n, v, IF v = "Custom" THEN "degC" ELSE "")), "") :
             s \in SensorIds, m \in MetricIds, n \in MetricNames,
             v \in {"Custom", "Predefined"}}
    \cup Misdescribed
    \cup {MqttEvent("MetricCreate", <<s>>, l, NoSensor, NoMetric, "") :
             s \in SensorIds, l \in CreatedLists}
    \cup {MqttEvent("Ping", <<>>, <<>>, NoSensor, NoMetric, "pong")}
    \cup FaultyEvents

\* ------------------------------------------------------------- the mailbox
\* Context<Self>: the mailbox is served first in, first out ...
NextIndex_QueriesFirst ==
    LET qs == {i \in DOMAIN inbox : inbox[i].type = "Query"}
    IN IF qs = {} THEN 1 ELSE CHOOSE i \in qs : \A j \in qs : i <= j

NextIndex == 1

\* ... and a handler runs to its end before the next message is taken.
ActorIdle_Always == TRUE

ActorIdle == handling = <<>>

RemoveAt(s, i) == SubSeq(s, 1, i - 1) \o SubSeq(s, i + 1, Len(s))

\* The store once every message already in the mailbox has been handled.
RECURSIVE merge_all(_, _)
merge_all(store, list) ==
    IF list = <<>> THEN store
    ELSE LET ls == Head(list)
             order == CHOOSE o \in Orders(IF ls.sensor_id \in DOMAIN store
                                          THEN deleted_metric_ids(store[ls.sensor_id], ls)
                                          ELSE {}) : TRUE
         IN merge_all(merge_linked_sensor(store, ls, order).sensors, Tail(list))

effect(store, item) ==
    IF item.type # "MqttEvent" THEN store
    ELSE IF steps(received(item)) THEN merge_all(store, item.list)
    ELSE handle(store, received(item)).sensors

RECURSIVE effects(_, _)
effects(store, box) ==
    IF box = <<>> THEN store ELSE effects(effect(store, Head(box)), Tail(box))

\* ------------------------------------------------------------ the event bus
\* broadcast::Sender::send, once per event and in order. send never waits: a
\* full channel overwrites its oldest event, and the receiver that had not read
\* that event has lagged.
\* A full channel that keeps what it holds and turns the new events away.
retained_KeepsOldest(b, evs) ==
    LET all == b \o evs IN
    IF Len(all) <= MaxBuffered THEN all
    ELSE SubSeq(all, 1, MaxBuffered)

retained(b, evs) ==
    LET all == b \o evs IN
    IF Len(all) <= MaxBuffered THEN all
    ELSE SubSeq(all, Len(all) - MaxBuffered + 1, Len(all))

overrun(b, evs) == Len(b) + Len(evs) > MaxBuffered

\* emit_events: every event goes to every subscriber. The UI's is an actor
\* mailbox (Recipient::do_send), which keeps all it is sent.
emit_events(evs) ==
    /\ IF "loop" \in subscribed
       THEN /\ bus' = retained(bus, evs)
            /\ lagged' = (lagged \/ overrun(bus, evs))
       ELSE UNCHANGED <<bus, lagged>>
    /\ uiInbox' = IF "ui" \in subscribed THEN uiInbox \o evs ELSE uiInbox

\* The command the client is to answer an event with: a SensorList for the
\* SensorUpdated of a sensor update, a MetricDescribe for a NewMetricCreated.
asked(sch, evs) ==
    {[scheme |-> "SensorList", ids |-> <<>>] :
        i \in {j \in DOMAIN evs : sch = "SensorUpdate" /\ evs[j].type = "SensorUpdated"}}
    \cup {[scheme |-> "MetricDescribe", ids |-> <<evs[i].sensor_id, evs[i].metric_id>>] :
             i \in {j \in DOMAIN evs : evs[j].type = "NewMetricCreated"}}

LoopIdle ==
    [pc |-> "recv", sensor_id |-> "", metric_ids |-> [some |-> FALSE, ids |-> {}],
     expect |-> [some |-> FALSE, ids |-> {}]]

\* No client is attached: nothing subscribes to the state events.
InitClient ==
    /\ subscribed = {}
    /\ bus = <<>>
    /\ lagged = FALSE
    /\ loopAlive = TRUE
    /\ loop = LoopIdle
    /\ published = {}
    /\ owed = {}
    /\ uiInbox = <<>>
    /\ livedata = <<>>
    /\ topic_callbacks = <<>>

InitStateActor ==
    /\ sensors = EmptyStore
    /\ inbox = <<>>
    /\ handling = <<>>
    /\ msg = NoMsg
    /\ events = <<>>
    /\ committed = EmptyStore
    /\ reply = NoReply
    /\ sent = 0
    /\ crashed = FALSE

\* MqttListener forwards a received message: state.do_send(MqttEvent(msg))
do_send(e) ==
    /\ sent < MaxItems
    /\ sent' = sent + 1
    /\ inbox' = Append(inbox, e)
    /\ UNCHANGED <<topic_callbacks, sensors, handling, msg, events, committed, reply, crashed, corrVars,
                   clientVars>>

\* A client sends a query: state.send(GetStateSnapshot) and the like. `expect`
\* remembers the answer over the store as every message enqueued before the
\* query leaves it, `behind` how many transport events were waiting then and
\* `during` whether a handler was in progress.
send(q) ==
    /\ sent < MaxItems
    /\ sent' = sent + 1
    /\ inbox' = Append(inbox,
                  [type |-> "Query", q |-> q.q, sensor_id |-> q.sensor_id,
                   name |-> q.name,
                   expect |-> answer(effects(merge_all(sensors, handling), inbox), q),
                   behind |-> Cardinality({i \in DOMAIN inbox :
                                              inbox[i].type = "MqttEvent"}),
                   during |-> handling # <<>>,
                   from |-> "caller"])
    /\ UNCHANGED <<topic_callbacks, sensors, handling, msg, events, committed, reply, crashed, corrVars,
                   clientVars>>

\* Handler<MqttEvent>::handle
Handler_MqttEvent_handle ==
    /\ ~crashed
    /\ ActorIdle
    /\ inbox # <<>>
    /\ inbox[NextIndex].type = "MqttEvent"
    /\ LET e == received(inbox[NextIndex]) IN
       IF steps(e)
       THEN /\ handling' = e.list
            /\ events' = <<>>
            /\ UNCHANGED <<sensors, committed, busVars, owed, crashed>>
       ELSE IF panics(e)
       THEN /\ crashed' = TRUE
            /\ events' = <<>>
            /\ UNCHANGED <<sensors, committed, busVars, owed, handling>>
       ELSE /\ sensors' = handle(sensors, e).sensors
            /\ events' = handle(sensors, e).events
            /\ committed' = handle(sensors, e).sensors
            /\ emit_events(handle(sensors, e).events)
            /\ owed' = IF "loop" \in subscribed
                        THEN owed \cup asked(e.scheme, handle(sensors, e).events)
                        ELSE owed
            /\ UNCHANGED <<handling, crashed>>
    /\ msg' = received(inbox[NextIndex])
    /\ inbox' = RemoveAt(inbox, NextIndex)
    /\ reply' = NoReply
    /\ UNCHANGED <<topic_callbacks, sent, corrVars, subscribed, loopAlive, loop, published, livedata>>

\* event_sensor_list: the body of its loop for the next linked sensor
event_sensor_list ==
    /\ handling # <<>>
    /\ LET linked_sensor == Head(handling)
           deleted == IF linked_sensor.sensor_id \in DOMAIN sensors
                      THEN deleted_metric_ids(sensors[linked_sensor.sensor_id],
                                              linked_sensor)
                      ELSE {}
       IN \E order \in Orders(deleted) :
            LET out == merge_linked_sensor(sensors, linked_sensor, order) IN
            /\ sensors' = out.sensors
            /\ events' = events \o out.events
            /\ committed' = IF Tail(handling) = <<>> THEN out.sensors ELSE committed
            /\ IF Tail(handling) = <<>>
               THEN emit_events(events \o out.events)
               ELSE UNCHANGED busVars
    /\ handling' = Tail(handling)
    /\ UNCHANGED <<topic_callbacks, inbox, msg, reply, sent, crashed, corrVars, subscribed, loopAlive, loop,
                   published, owed, livedata>>

\* Handler<GetStateSnapshot / GetMetricIds / GetSensorIdByName /
\* GetMetricIdByName>::handle. `expect` and `boundary` are kept beside the
\* answer: what the query was to see, and the store as the latest handler left it.
Handler_Query_handle ==
    /\ ~crashed
    /\ ActorIdle
    /\ inbox # <<>>
    /\ inbox[NextIndex].type = "Query"
    /\ IF inbox[NextIndex].from = "loop"
       THEN /\ loop' = [pc |-> "resume", sensor_id |-> inbox[NextIndex].sensor_id,
                        metric_ids |-> answer(sensors, inbox[NextIndex]),
                        expect |-> inbox[NextIndex].expect]
            /\ UNCHANGED reply
       ELSE /\ reply' = [q |-> inbox[NextIndex].q,
                         value |-> answer(sensors, inbox[NextIndex]),
                         expect |-> inbox[NextIndex].expect,
                         boundary |-> committed,
                         behind |-> inbox[NextIndex].behind,
                         during |-> inbox[NextIndex].during]
            /\ UNCHANGED loop
    /\ inbox' = RemoveAt(inbox, NextIndex)
    /\ UNCHANGED <<topic_callbacks, sensors, handling, msg, events, committed, sent, crashed, corrVars,
                   subscribed, bus, lagged, loopAlive, published, owed, uiVars>>

\* ------------------------------------------- SensorVisionClient's event loop
\* raw_message -> MqttActorHandle::one_way_message, once per command: the send
\* fails once the worker task has ended, and the handler's expect(..) then
\* panics the loop's task.
raw_messages(cmds) ==
    IF cmds = <<>> THEN UNCHANGED <<queue, loopAlive>>
    ELSE IF revision = "tokio" /\ ~workerAlive
    THEN /\ loopAlive' = FALSE
         /\ UNCHANGED queue
    ELSE /\ queue' = queue \o cmds
         /\ UNCHANGED loopAlive

describes(sensor_id, order) ==
    [i \in DOMAIN order |-> OneWay("MetricDescribe", <<sensor_id, order[i]>>)]

\* SensorVisionClient::state_event_handler, up to its first await. `expect`
\* remembers the answer over the store as the messages enqueued before the
\* query leave it.
state_event_handler(event) ==
    CASE event.type \in {"NewLinkedSensorLoaded", "ExistingLinkedSensorLoaded"} ->
            /\ \E order \in Orders(event.sensor.metrics) :
                  raw_messages(describes(event.sensor.sensor_id, order))
            /\ UNCHANGED <<loop, inbox>>
      [] event.type = "NewMetricCreated" ->
            /\ raw_messages(<<OneWay("MetricDescribe",
                                     <<event.sensor_id, event.metric_id>>)>>)
            /\ UNCHANGED <<loop, inbox>>
      [] event.type = "SensorUpdated" ->
            /\ raw_messages(<<OneWay("SensorList", <<>>)>>)
            /\ UNCHANGED <<loop, inbox>>
      [] event.type = "SensorMetricsUpdated" ->
            /\ loop' = [loop EXCEPT !.pc = "await", !.sensor_id = event.sensor_id]
            /\ inbox' = Append(inbox,
                  [type |-> "Query", q |-> "GetMetricIds",
                   sensor_id |-> event.sensor_id, name |-> "",
                   expect |-> answer(effects(merge_all(sensors, handling), inbox),
                                     [q |-> "GetMetricIds",
                                      sensor_id |-> event.sensor_id, name |-> ""]),
                   from |-> "loop"])
            /\ UNCHANGED <<queue, loopAlive>>
      [] OTHER -> UNCHANGED <<queue, loopAlive, loop, inbox>>

\* state_event_loop: `while let Ok(event) = event_receiver.recv().await`, one
\* turn. A receiver that lagged gets Err(Lagged) and the loop ends.
state_event_loop ==
    /\ "loop" \in subscribed
    /\ loopAlive
    /\ loop.pc = "recv"
    /\ lagged \/ bus # <<>>
    /\ IF lagged
       THEN /\ loopAlive' = FALSE
            /\ UNCHANGED <<queue, bus, loop, inbox>>
       ELSE /\ bus' = Tail(bus)
            /\ state_event_handler(Head(bus))
    /\ UNCHANGED <<topic_callbacks, corrRest, stateRest, subscribed, lagged, published, owed, uiVars>>

\* state_event_handler resumed with the answer of its GetMetricIds query
state_event_handler_resume ==
    /\ loopAlive
    /\ loop.pc = "resume"
    /\ IF loop.metric_ids.some
       THEN \E order \in Orders(loop.metric_ids.ids) :
               raw_messages(describes(loop.sensor_id, order))
       ELSE UNCHANGED <<queue, loopAlive>>
    /\ loop' = LoopIdle
    /\ UNCHANGED <<topic_callbacks, corrRest, stateVars, subscribed, bus, lagged, published, owed, uiVars>>

\* ------------------------------------------------ AppClient and UIState
LIVEDATA_WINDOW_LIMIT == 50

\* MetricLivedataWindow::default()
EmptyWindow ==
    [data_sorted |-> <<>>, data |-> <<>>, min_value |-> 0, max_value |-> 0,
     min_timestamp |-> 0, max_timestamp |-> 0]

Least(S) == CHOOSE x \in S : \A y \in S : x <= y
Greatest(S) == CHOOSE x \in S : \A y \in S : y <= x

\* data_sorted.iter().map(|(ts, val)| (*ts as f64, *val)).collect()
RECURSIVE iter(_)
iter(ds) ==
    IF DOMAIN ds = {} THEN <<>>
    ELSE LET ts == Least(DOMAIN ds)
         IN <<(<<ts, ds[ts]>>)>> \o iter([t \in (DOMAIN ds) \ {ts} |-> ds[t]])

\* push_data that inserts without making room first.
push_data_NoEviction(w, timestamp, value) ==
    LET old == w.data_sorted
        ds == [t \in (DOMAIN old) \cup {timestamp} |->
                  IF t = timestamp THEN value ELSE old[t]]
    IN [data_sorted |-> ds,
        data |-> iter(ds),
        min_value |-> LET least == Least({ds[t] : t \in DOMAIN ds})
                      IN IF least > 0 THEN 0 ELSE least,
        max_value |-> Greatest({ds[t] : t \in DOMAIN ds}),
        min_timestamp |-> Least(DOMAIN ds),
        max_timestamp |-> Greatest(DOMAIN ds)]

\* push_data that lowers min_timestamp when a lower one is pushed and never
\* raises it.
push_data_KeepsMinTimestamp(w, timestamp, value) ==
    LET old == w.data_sorted
        kept == IF Cardinality(DOMAIN old) = LIVEDATA_WINDOW_LIMIT
                THEN [t \in (DOMAIN old) \ {Least(DOMAIN old)} |-> old[t]]
                ELSE old
        ds == [t \in (DOMAIN kept) \cup {timestamp} |->
                  IF t = timestamp THEN value ELSE kept[t]]
    IN [data_sorted |-> ds,
        data |-> iter(ds),
        min_value |-> LET least == Least({ds[t] : t \in DOMAIN ds})
                      IN IF least > 0 THEN 0 ELSE least,
        max_value |-> Greatest({ds[t] : t \in DOMAIN ds}),
        min_timestamp |-> IF DOMAIN old = {} \/ timestamp < w.min_timestamp
                          THEN timestamp ELSE w.min_timestamp,
        max_timestamp |-> Greatest(DOMAIN ds)]

\* MetricLivedataWindow::push_data (the formatted strings left out)
push_data(w, timestamp, value) ==
    LET old == w.data_sorted
        kept == IF Cardinality(DOMAIN old) = LIVEDATA_WINDOW_LIMIT
                THEN [t \in (DOMAIN old) \ {Least(DOMAIN old)} |-> old[t]]
                ELSE old
        ds == [t \in (DOMAIN kept) \cup {timestamp} |->
                  IF t = timestamp THEN value ELSE kept[t]]
    IN [data_sorted |-> ds,
        data |-> iter(ds),
        min_value |-> LET least == Least({ds[t] : t \in DOMAIN ds})
                      IN IF least > 0 THEN 0 ELSE least,
        max_value |-> Greatest({ds[t] : t \in DOMAIN ds}),
        min_timestamp |-> Least(DOMAIN ds),
        max_timestamp |-> Greatest(DOMAIN ds)]

\* Handler<AcceptLivedata> for UIState / UIStateActor::accept_livedata
accept_livedata(windows, sensor_id, metric_id, value, timestamp) ==
    LET key == <<sensor_id, metric_id>>
        number == IF value.variant = "Boolean"
                  THEN (IF value.flag THEN 1 ELSE 0)
                  ELSE value.number
        window == IF key \in DOMAIN windows THEN windows[key] ELSE EmptyWindow
    IN IF value.variant = "String" THEN windows
       ELSE [k \in (DOMAIN windows) \cup {key} |->
                IF k = key THEN push_data(window, timestamp, number) ELSE windows[k]]

\* Handler<DropSensor> for UIState: retain(|(sens_id, _), _| sens_id != &sensor_id)
DropSensor(windows, sensor_id) ==
    [k \in {x \in DOMAIN windows : x[1] # sensor_id} |-> windows[k]]

\* Handler<DropMetric> for UIState:
\* retain(|(sens_id, metr_id), _| sensor_id.ne(sens_id) && metric_id.ne(metr_id))
DropMetric(windows, sensor_id, metric_id) ==
    [k \in {x \in DOMAIN windows : sensor_id # x[1] /\ metric_id # x[2]} |-> windows[k]]

\* Handler<SensorStateEvent> for AppClient, with the UIState handler it sends
\* the event's message to.
Handler_SensorStateEvent_handle ==
    /\ uiInbox # <<>>
    /\ LET event == Head(uiInbox) IN
       livedata' =
          CASE event.type = "Livedata" ->
                  accept_livedata(livedata, event.sensor_id, event.metric_id,
                                  event.value, event.timestamp)
            [] event.type = "SensorDeleted" -> DropSensor(livedata, event.sensor_id)
            [] event.type = "MetricDeleted" ->
                  DropMetric(livedata, event.sensor_id, event.metric_id)
            [] OTHER -> livedata
    /\ uiInbox' = Tail(uiInbox)
    /\ UNCHANGED <<topic_callbacks, corrVars, stateVars, loopVars, published, owed>>

\* ------------------------------------------------------- correlator runs
NextCorrelator ==
    \/ \E r \in Req, s \in ReqSchemes : MqttActorHandle_request(r, s)
    \/ one_way_message
    \/ handle_command
    \/ \E r \in Req : subscribe_many(r)
    \/ \E r \in Req : publish(r)
    \/ \E r \in Req : stream_next(r)
    \/ \E r \in Req : unsubscribe_many(r)
    \/ \E m \in net : Deliver(m)
    \/ Disconnect

\* The correlator at work, the state actor at rest.
InitCorrelatorRun == InitCorrelator /\ InitStateActor /\ InitClient

SpecCorrelator == InitCorrelatorRun /\ [][NextCorrelator]_vars

\* The scheduling the runtimes give: the worker task / arbiter keeps polling a
\* ready future and keeps taking commands; the broker delivers what it holds.
FairSpecCorrelator ==
    /\ SpecCorrelator
    /\ WF_vars(handle_command)
    /\ \A r \in Req : WF_vars(subscribe_many(r))
    /\ \A r \in Req : WF_vars(publish(r))
    /\ \A r \in Req : WF_vars(stream_next(r))
    /\ \A r \in Req : WF_vars(unsubscribe_many(r))
    /\ WF_vars(\E m \in net : Deliver(m))

\* ------------------------------------------------------- specifications
NextStateActor ==
    \/ \E e \in InboxEvents : do_send(e)
    \/ \E q \in InboxQueries : send(q)
    \/ Handler_MqttEvent_handle
    \/ event_sensor_list
    \/ Handler_Query_handle

\* The state actor serving its mailbox, the correlator at rest.
Init == InitCorrelator /\ revision = "actix" /\ InitStateActor /\ InitClient

Next == NextStateActor

Spec == Init /\ [][Next]_vars

\* One inbound message of any kind, handled over any seeded store; a SensorList
\* reply may also arrive a second time.
InitReconcile ==
    /\ InitCorrelator
    /\ revision = "actix"
    /\ sensors \in SeedStores
    /\ inbox \in {<<e>> : e \in ReconcileEvents}
                 \cup {<<e, e>> : e \in {x \in ReconcileEvents : x.scheme = "SensorList"}}
    /\ handling = <<>>
    /\ msg = NoMsg
    /\ events = <<>>
    /\ committed = sensors
    /\ reply = NoReply
    /\ sent = Len(inbox)
    /\ crashed = FALSE
    /\ InitClient

NextReconcile ==
    \/ Handler_MqttEvent_handle
    \/ event_sensor_list

SpecReconcile == InitReconcile /\ [][NextReconcile]_vars

\* The UI attached: livedata messages, a sensor deletion and a snapshot that
\* drops a metric are handled by the state actor, their events by the UI.
LivedataTuples ==
    {PushMetricValueResponse("m1", Integer(5)),
     PushMetricValueResponse("m1", String("on")),
     PushMetricValueResponse("m2", Double(7)),
     PushMetricValueResponse("m2", Boolean(TRUE))}

LivedataEvents ==
    {LivedataMessage(s, l, ts) :
        s \in SensorIds, l \in Seqs(LivedataTuples, MaxTuples) \cup {<<>>},
        ts \in {NoTimestamp, Some(1), Some(2)}}
    \cup {MqttEvent("SensorDelete", <<"s1">>, <<>>, NoSensor, NoMetric,
                    "Sensor was deleted.")}
    \cup {MqttEvent("SensorList", <<>>, <<Sensor("s1", "Temp", {"m2"})>>, NoSensor,
                    NoMetric, "")}

InitLivedata ==
    /\ InitCorrelator
    /\ revision = "actix"
    /\ sensors = insert(EmptyStore, "s1",
                        Sensor("s1", "Temp", <<SeedMetric("m1"), SeedMetric("m2")>>))
    /\ inbox \in {<<a>> : a \in LivedataEvents}
                 \cup {<<a, b>> : a \in LivedataEvents, b \in LivedataEvents}
    /\ handling = <<>>
    /\ msg = NoMsg
    /\ events = <<>>
    /\ committed = sensors
    /\ reply = NoReply
    /\ sent = Len(inbox)
    /\ crashed = FALSE
    /\ subscribed = {"ui"}
    /\ bus = <<>>
    /\ lagged = FALSE
    /\ loopAlive = TRUE
    /\ loop = LoopIdle
    /\ published = {}
    /\ owed = {}
    /\ uiInbox = <<>>
    /\ livedata = <<>>
    /\ topic_callbacks = <<>>

NextLivedata ==
    \/ Handler_MqttEvent_handle
    \/ event_sensor_list
    \/ Handler_SensorStateEvent_handle

SpecLivedata == InitLivedata /\ [][NextLivedata]_vars

\* The client attached: state events reach its loop, which answers them with
\* fire-and-forget commands to the request worker. The session stays connected.
RefreshLinked == {Sensor(s, "Temp", ms) : s \in SensorIds, ms \in {{}, {"m1"}}}

RefreshEvents ==
    {MqttEvent("SensorList", <<>>, l, NoSensor, NoMetric, "") :
        l \in Seqs(RefreshLinked, MaxListed)}
    \cup {MqttEvent("SensorUpdate", <<s>>, <<>>, NoSensor, NoMetric,
                    "Sensor was changed.") : s \in SensorIds}
    \cup {MqttEvent("MetricUpdate", <<s>>, <<>>, NoSensor, NoMetric,
                    "All metrics were successfully modified.") : s \in SensorIds}
    \cup {MqttEvent("MetricCreate", <<"s1">>, l, NoSensor, NoMetric, "") :
             l \in {<<CreateMetricResponsePayload(1, "m2")>>,
                    <<CreateMetricResponsePayload(2, "m2"),
                      CreateMetricResponsePayload(1, "m1")>>}}

InitRefresh ==
    /\ InitCorrelator
    /\ revision = "tokio"
    /\ InitStateActor
    /\ subscribed = {"loop"}
    /\ bus = <<>>
    /\ lagged = FALSE
    /\ loopAlive = TRUE
    /\ loop = LoopIdle
    /\ published = {}
    /\ owed = {}
    /\ uiInbox = <<>>
    /\ livedata = <<>>
    /\ topic_callbacks = <<>>

NextRefresh ==
    \/ \E e \in RefreshEvents : do_send(e)
    \/ Handler_MqttEvent_handle
    \/ event_sensor_list
    \/ Handler_Query_handle
    \/ state_event_loop
    \/ state_event_handler_resume
    \/ handle_command

SpecRefresh == InitRefresh /\ [][NextRefresh]_vars

\* Every task is scheduled: the state actor serves its mailbox, the loop's task
\* and the worker's task run when they can.
FairSpecRefresh ==
    /\ SpecRefresh
    /\ WF_vars(Handler_MqttEvent_handle)
    /\ WF_vars(event_sensor_list)
    /\ WF_vars(Handler_Query_handle)
    /\ WF_vars(state_event_loop)
    /\ WF_vars(state_event_handler_resume)
    /\ WF_vars(handle_command)


\* =================================================== claims, correlator
Returned(r) == pc[r] = "done"

\* C1: at every instant at most one correlated request is between its
\* subscribe and its unsubscribe, and at most one call has been taken from the
\* queue and not yet returned.
C1_SingleFlight ==
    /\ Cardinality({r \in Req : pc[r] \in InFlight}) <= 1
    /\ Cardinality({r \in Req : pc[r] \in Running}) <= 1

\* C2: no call publishes while another call is subscribed and not yet
\* unsubscribed, and a call that is resolved with a reply (as success or as
\* remote error) is resolved with the reply produced for its own request.
C2_OwnReply ==
    /\ \A r1, r2 \in Req :
          r1 # r2 /\ pc[r1] \in {"published", "replied"} => pc[r2] \notin InFlight
    /\ \A r \in Req : result[r].kind \in {"ok", "remote_err"} => result[r].for = r

\* C3: a call that has returned has invoked unsubscribe_many if a subscription
\* it made is still there, on every exit path.
C3_AlwaysUnsubscribes ==
    \A r \in Req :
        Returned(r) /\ (\E p \in subs : p[2] = r) => unsubCalled[r]

\* C4 as stated: a call whose stream gave a message resolves successfully with
\* that message's body exactly when its topic is the call's success topic, and
\* fails with a remote error carrying the body otherwise.
C4_SuccessIffSuccessTopic ==
    \A r \in Req :
        Returned(r) /\ got[r].kind = "msg" =>
            IF got[r].topic = response_topic(r)
            THEN result[r] = [kind |-> "ok", for |-> got[r].for]
            ELSE result[r] = [kind |-> "remote_err", for |-> got[r].for]

\* C4 amended: a call whose stream gave a message and whose unsubscribe
\* succeeded fails with a remote error carrying the message's body exactly when
\* the message's topic is the call's error topic, and resolves successfully with
\* the body for a message on any other topic; if the unsubscribe fails the call
\* fails with the transport error.
C4_ErrorIffErrorTopic ==
    \A r \in Req :
        Returned(r) /\ got[r].kind = "msg" =>
            \/ result[r] = Failure("transport_err")
            \/ /\ got[r].topic = error_topic(r)
               /\ result[r] = [kind |-> "remote_err", for |-> got[r].for]
            \/ /\ got[r].topic # error_topic(r)
               /\ result[r] = [kind |-> "ok", for |-> got[r].for]

\* C4 witness: one call failed on a message on its error topic and another call
\* resolved successfully on a message on its success topic.
C4_Witness ==
    \E r1, r2 \in Req :
        /\ Returned(r1) /\ got[r1].kind = "msg" /\ got[r1].topic = error_topic(r1)
        /\ result[r1].kind = "remote_err"
        /\ Returned(r2) /\ got[r2].kind = "msg" /\ got[r2].topic = response_topic(r2)
        /\ result[r2].kind = "ok"

\* C5: a request that was outstanding (published, nothing received yet) when
\* the session was lost is never left pending and never resolves successfully:
\* from then on, until it has returned, its next step is ready to run (it does
\* not wait for anything more from the transport), and once it has returned
\* its caller holds a failure.
C5_DisconnectFails ==
    \A r \in Req :
        lostWhile[r] =>
            IF Returned(r)
            THEN result[r].kind \notin {"none", "ok"}
            ELSE (pc[r] = "published" /\ StreamReady(r)) \/ pc[r] = "replied"

\* C5 witness: such a request has returned with a failure.
C5_Witness ==
    \E r \in Req : lostWhile[r] /\ Returned(r) /\ result[r].kind = "transport_err"

\* C6: provided every published request eventually finds its stream ready (a
\* message or a disconnect arrives), every call that is queued is eventually
\* started, and every started call eventually returns.
C6_RunsToCompletion ==
    (\A r \in Req : [](pc[r] = "published" => <>(StreamReady(r) \/ pc[r] # "published")))
    => (\A r \in Req : /\ (pc[r] = "queued" ~> pc[r] = "new")
                       /\ (pc[r] = "new" ~> Returned(r)))

\* C9: a remote error is delivered to the caller of the request it was
\* produced for and to no other; the worker is not stopped by a failed request
\* (it stops only on a failed fire-and-forget publish).
C9_FailureToOwnCaller ==
    /\ \A r \in Req : result[r].kind = "remote_err" => result[r].for = r
    /\ (~workerAlive => oneWaySent > 0)

\* =================================================== claims, state actor
\* C7: a query enqueued after a mutation message answers over a store that
\* holds that mutation's effect: whatever else arrives meanwhile, the answer
\* is the one computed over the store as the messages enqueued before the
\* query leave it.
C7_QueryAfterMutation ==
    reply.q # "none" => reply.value = reply.expect

\* A snapshot sent while two transport events were still waiting, answered with
\* both of their sensors in it.
C7_Witness ==
    /\ reply.q = "GetStateSnapshot"
    /\ reply.behind = 2
    /\ DOMAIN reply.value = SensorIds

\* C8: the answer to a snapshot query is the store as it stood when the
\* handling of a message ended, never the store in the middle of a SensorList
\* merge.
C8_NoPartialState ==
    reply.q = "GetStateSnapshot" => reply.value = reply.boundary

\* A snapshot sent while a SensorList of two sensors was half merged, answered
\* with both sensors in it.
C8_Witness ==
    /\ reply.q = "GetStateSnapshot"
    /\ reply.during
    /\ DOMAIN reply.value = SensorIds
    /\ Len(events) = 2

\* C10: merging a listed sensor S that the store knows emits exactly one
\* MetricDeleted(S, id) for every local metric id the list omits and none for a
\* retained id, leaves S with its previous metric list restricted to the listed
\* ids in the previous order, and leaves every other sensor as it was.
C10_DiffCorrectness ==
    [][(/\ handling # <<>>
        /\ handling' = Tail(handling)
        /\ Head(handling).sensor_id \in DOMAIN sensors)
       => LET ls == Head(handling)
              S == ls.sensor_id
              old == sensors[S].metrics
              gone == metric_ids(old) \ ls.metrics
              emitted == SubSeq(events', Len(events) + 1, Len(events'))
              deletions(id) ==
                  {i \in DOMAIN emitted :
                      /\ emitted[i].type = "MetricDeleted"
                      /\ emitted[i].sensor_id = S
                      /\ emitted[i].metric_id = id}
          IN /\ \A id \in gone : Cardinality(deletions(id)) = 1
             /\ \A i \in DOMAIN emitted :
                   emitted[i].type = "MetricDeleted"
                   => emitted[i].sensor_id = S /\ emitted[i].metric_id \in gone
             /\ S \in DOMAIN sensors'
             /\ sensors'[S].metrics = SelectSeq(old, LAMBDA m : m.metric_id \in ls.metrics)
             /\ \A T \in (DOMAIN sensors) \ {S} :
                   T \in DOMAIN sensors' /\ sensors'[T] = sensors[T]]_vars

\* Local m1, m2, m3 and a list naming m1 and m3: one MetricDeleted for m2, and
\* m1, m3 left in that order, the other sensor of the list still to be merged.
C10_Witness ==
    \E S \in (DOMAIN sensors) \cap (DOMAIN committed) :
        /\ handling # <<>>
        /\ [i \in DOMAIN committed[S].metrics |-> committed[S].metrics[i].metric_id]
              = <<"m1", "m2", "m3">>
        /\ [i \in DOMAIN sensors[S].metrics |-> sensors[S].metrics[i].metric_id]
              = <<"m1", "m3">>
        /\ Len(events) = 2
        /\ events[1] = MetricDeleted(S, "m2")

\* The handler is on, or has finished, the second arrival of a SensorList reply.
SecondApplication == sent = 2 /\ inbox = <<>> /\ steps(msg)

DistinctSensors(list) ==
    \A i, j \in DOMAIN list : list[i].sensor_id = list[j].sensor_id => i = j

\* C11 (as stated): the second application of the same SensorList reply emits
\* no event at all and leaves the store as it was.
C11_ZeroEvents ==
    SecondApplication => events = <<>> /\ sensors = committed

\* C11 (amended): the second application of a SensorList reply that lists every
\* sensor once leaves the store as the first application left it and emits, for
\* every listed sensor in list order, one ExistingLinkedSensorLoaded and
\* nothing else.
C11_OnlyRelinked ==
    (SecondApplication /\ DistinctSensors(msg.list))
    => /\ sensors = committed
       /\ events = [i \in 1..(Len(msg.list) - Len(handling)) |->
                       ExistingLinkedSensorLoaded(msg.list[i])]

\* Two sensors listed, one of which keeps metrics, applied for the second time.
C11_Witness ==
    /\ SecondApplication
    /\ handling = <<>>
    /\ Len(msg.list) = 2
    /\ DistinctSensors(msg.list)
    /\ \E s \in DOMAIN sensors : Len(sensors[s].metrics) = 2

\* The step merges a listed sensor; `emitted` is what the step adds to events.
MergeStep == handling # <<>> /\ handling' = Tail(handling)

\* C12: merging a listed sensor the store does not hold inserts it under the
\* incoming name with an empty metric list, whatever stubs the list carries,
\* and emits NewLinkedSensorLoaded with the incoming sensor and nothing else;
\* the sensors already held stay as they were.
C12_UnknownSensorInserted ==
    [][(MergeStep /\ Head(handling).sensor_id \notin DOMAIN sensors)
       => LET ls == Head(handling)
          IN /\ DOMAIN sensors' = (DOMAIN sensors) \cup {ls.sensor_id}
             /\ sensors'[ls.sensor_id] = Sensor(ls.sensor_id, ls.name, <<>>)
             /\ events' = Append(events, NewLinkedSensorLoaded(ls))
             /\ \A T \in DOMAIN sensors : sensors'[T] = sensors[T]]_vars

\* An unknown sensor listed with stubs has been inserted without metrics.
C12_Witness ==
    /\ msg.scheme = "SensorList"
    /\ Len(events) = 1
    /\ events[1].type = "NewLinkedSensorLoaded"
    /\ events[1].sensor.metrics = MetricIds
    /\ events[1].sensor.sensor_id \in DOMAIN sensors
    /\ events[1].sensor.sensor_id \notin DOMAIN committed
    /\ sensors[events[1].sensor.sensor_id].metrics = <<>>
    /\ sensors[events[1].sensor.sensor_id].name = events[1].sensor.name

\* The step handles a sensor delete acknowledgement with the text of the API.
DeleteAckStep ==
    /\ inbox # <<>>
    /\ inbox' = Tail(inbox)
    /\ inbox[1].type = "MqttEvent"
    /\ inbox[1].scheme = "SensorDelete"
    /\ inbox[1].on = "response"
    /\ inbox[1].text = "Sensor was deleted."

\* C13: merging a SensorList reply never takes a sensor out of the store, listed
\* or not; a step that takes one out is the handling of a sensor delete
\* acknowledgement, and takes out the sensor that acknowledgement names.
C13_NoPruning ==
    [][/\ MergeStep => \A s \in DOMAIN sensors : s \in DOMAIN sensors'
       /\ (\E s \in DOMAIN sensors : s \notin DOMAIN sensors')
          => /\ DeleteAckStep
             /\ (DOMAIN sensors) \ (DOMAIN sensors') = {inbox[1].ids[Len(inbox[1].ids)]}]_vars

\* A SensorList reply has been merged and a sensor it does not list is still
\* there with its metrics.
C13_Witness ==
    /\ msg.scheme = "SensorList"
    /\ msg.list # <<>>
    /\ handling = <<>>
    /\ \E s \in DOMAIN sensors :
          /\ \A i \in DOMAIN msg.list : msg.list[i].sensor_id # s
          /\ sensors[s].metrics # <<>>

\* The step is Handler<MqttEvent>::handle taking a reply of scheme `sch`: a body
\* that deserialized, on the scheme's response topic.
HandleStep(sch) ==
    /\ inbox # <<>>
    /\ inbox' = Tail(inbox)
    /\ inbox[1].type = "MqttEvent"
    /\ inbox[1].scheme = sch
    /\ inbox[1].on = "response"
    /\ inbox[1].body = "parsed"

\* C14: a MetricDescribe reply for a cached sensor S and metric M appends the
\* described metric and emits one NewMetricLoaded when S has no M; when S has
\* M it sets the name and emits MetricNameChanged exactly if the name differs,
\* sets the annotation and emits MetricValueAnnotationChanged exactly if both
\* are Custom and the annotation differs, and emits nothing if neither does.
\* Every other metric and every other sensor is left as it was.
C14_Describe ==
    [][(HandleStep("MetricDescribe") /\ inbox[1].ids[1] \in DOMAIN sensors)
       => LET S == inbox[1].ids[1]
              M == inbox[1].ids[2]
              dm == inbox[1].metric
              old == sensors[S].metrics
              at == {i \in DOMAIN old : old[i].metric_id = M}
          IN /\ DOMAIN sensors' = DOMAIN sensors
             /\ \A T \in (DOMAIN sensors) \ {S} : sensors'[T] = sensors[T]
             /\ sensors'[S].name = sensors[S].name
             /\ IF at = {}
                THEN /\ sensors'[S].metrics = Append(old, dm)
                     /\ events' = <<NewMetricLoaded(S, dm)>>
                ELSE LET k == CHOOSE i \in at : \A j \in at : i <= j
                         new == sensors'[S].metrics
                         renamed == old[k].name # dm.name
                         custom == old[k].variant = "Custom" /\ dm.variant = "Custom"
                         annotated ==
                             custom /\ old[k].value_annotation # dm.value_annotation
                     IN /\ Len(new) = Len(old)
                        /\ \A i \in DOMAIN old : i # k => new[i] = old[i]
                        /\ new[k].metric_id = M
                        /\ new[k].variant = old[k].variant
                        /\ new[k].name = dm.name
                        /\ new[k].value_annotation =
                              IF custom THEN dm.value_annotation
                              ELSE old[k].value_annotation
                        /\ events' =
                              (IF renamed THEN <<MetricNameChanged(S, M, dm.name)>>
                               ELSE <<>>)
                              \o (IF annotated
                                  THEN <<MetricValueAnnotationChanged(
                                            S, M, dm.value_annotation)>>
                                  ELSE <<>>)
                        /\ (~renamed /\ ~annotated)
                           => events' = <<>> /\ sensors' = sensors]_vars

\* A describe has renamed a cached metric and changed its annotation.
C14_Witness ==
    /\ msg.scheme = "MetricDescribe"
    /\ Len(events) = 2
    /\ events[1].type = "MetricNameChanged"
    /\ events[2].type = "MetricValueAnnotationChanged"
    /\ \E i \in DOMAIN sensors[msg.ids[1]].metrics :
          sensors[msg.ids[1]].metrics[i] = msg.metric

\* C15: a sensor delete acknowledgement for S takes S, and with it all its
\* metrics, out of the store, emits SensorDeleted(S) and nothing else, and
\* leaves every other sensor as it was.
C15_SensorDeleted ==
    [][(DeleteAckStep /\ inbox[1].ids # <<>>)
       => LET S == inbox[1].ids[Len(inbox[1].ids)]
          IN /\ DOMAIN sensors' = (DOMAIN sensors) \ {S}
             /\ \A T \in DOMAIN sensors' : sensors'[T] = sensors[T]
             /\ events' = <<SensorDeleted(S)>>]_vars

\* A sensor has been deleted while another one keeps its metrics.
C15_Witness ==
    /\ msg.scheme = "SensorDelete"
    /\ events = <<SensorDeleted(msg.ids[1])>>
    /\ msg.ids[1] \notin DOMAIN sensors
    /\ \E T \in DOMAIN sensors : Len(sensors[T].metrics) = 2

\* C16 (as stated): handling a metric delete acknowledgement for a cached sensor
\* S that has metrics takes a metric out of S's list and emits MetricDeleted
\* for it.
C16_MetricRemovedOnAck ==
    [][(/\ HandleStep("MetricDelete")
        /\ inbox[1].text = "All metrics were successfully deleted."
        /\ inbox[1].ids # <<>>
        /\ inbox[1].ids[1] \in DOMAIN sensors
        /\ sensors[inbox[1].ids[1]].metrics # <<>>)
       => LET S == inbox[1].ids[1]
          IN \E m \in metric_ids(sensors[S].metrics) :
                /\ S \in DOMAIN sensors'
                /\ m \notin metric_ids(sensors'[S].metrics)
                /\ \E i \in DOMAIN events' :
                      /\ events'[i].type = "MetricDeleted"
                      /\ events'[i] = MetricDeleted(S, m)]_vars

\* C16 (amended): handling a metric delete acknowledgement for S leaves the
\* store as it was, the metrics of S included, and emits SensorUpdated(S) and
\* nothing else.
C16_RefreshOnAck ==
    [][(/\ HandleStep("MetricDelete")
        /\ inbox[1].text = "All metrics were successfully deleted."
        /\ inbox[1].ids # <<>>)
       => /\ sensors' = sensors
          /\ events' = <<SensorUpdated(inbox[1].ids[Len(inbox[1].ids)])>>]_vars

\* The acknowledgement has been handled and the sensor still has its metrics.
C16_Witness ==
    /\ msg.scheme = "MetricDelete"
    /\ events = <<SensorUpdated(msg.ids[1])>>
    /\ msg.ids[1] \in DOMAIN sensors
    /\ Len(sensors[msg.ids[1]].metrics) = 3

UpdateAckStep == HandleStep("SensorUpdate") /\ inbox[1].text = "Sensor was changed."

\* The handler's part of C18: the acknowledgement for sensor S leaves the store
\* as it was and emits SensorUpdated(S) alone.
AckEmitsRefresh ==
    [][UpdateAckStep
       => /\ sensors' = sensors
          /\ events' = <<SensorUpdated(inbox[1].ids[1])>>]_vars

\* C18: a sensor update acknowledgement for sensor S changes nothing in the
\* store and emits SensorUpdated(S), and every such acknowledgement is
\* eventually followed by a publish on the SensorList action topic.
C18_RefreshFollows ==
    /\ AckEmitsRefresh
    /\ ([scheme |-> "SensorList", ids |-> <<>>] \in owed)
          ~> ([scheme |-> "SensorList", ids |-> <<>>] \notin owed)

\* The step is the handler of a metric creation acknowledgement.
CreateAckStep == HandleStep("MetricCreate")

\* The handler's part of C19: the acknowledgement for sensor S with n entries
\* leaves the store as it was and emits n NewMetricCreated, the k-th with the
\* metric id of the k-th entry whatever the matching ids are.
AckEmitsCreated ==
    [][CreateAckStep
       => /\ sensors' = sensors
          /\ Len(events') = Len(inbox[1].list)
          /\ \A k \in DOMAIN inbox[1].list :
                events'[k] = NewMetricCreated(inbox[1].ids[1], inbox[1].list[k].metric_id)]_vars

\* C19: a metric creation acknowledgement for sensor S with n (matchingId,
\* MetricId) entries emits exactly n NewMetricCreated events, the k-th carrying
\* the MetricId of the k-th entry, and each NewMetricCreated(S, M) is eventually
\* followed by a MetricDescribe request for (S, M).
C19_CreatedThenDescribed ==
    /\ AckEmitsCreated
    /\ \A s \in SensorIds, m \in MetricIds :
          ([scheme |-> "MetricDescribe", ids |-> <<s, m>>] \in owed)
             ~> ([scheme |-> "MetricDescribe", ids |-> <<s, m>>] \notin owed)

\* =================================================== claims, livedata
\* The step is the handler of a livedata message.
LivedataStep == HandleStep("Livedata")

\* The step is the UI's handler taking a Livedata event.
AcceptStep ==
    /\ uiInbox # <<>>
    /\ uiInbox' = Tail(uiInbox)
    /\ uiInbox[1].type = "Livedata"

\* The UI's part of C20: a Livedata event with a numeric value puts its sample
\* into the window of its (sensor, metric) and leaves every other window as it
\* was; one with a string value changes no window and creates none.
AcceptFeedsWindow ==
    [][AcceptStep
       => LET event == uiInbox[1]
              key == <<event.sensor_id, event.metric_id>>
          IN IF event.value.variant = "String"
             THEN livedata' = livedata
             ELSE /\ DOMAIN livedata' = (DOMAIN livedata) \cup {key}
                  /\ event.timestamp \in DOMAIN livedata'[key].data_sorted
                  /\ \A k \in DOMAIN livedata : k # key => livedata'[k] = livedata[k]]_vars

\* C20: a livedata message for sensor S with k (MetricId, value) tuples emits
\* exactly k Livedata events, one per tuple and in their order; each numeric
\* tuple is put into the window of (S, MetricId) and a string tuple neither
\* creates nor changes a window.
C20_TuplesToWindows ==
    /\ [][LivedataStep
          => /\ Len(events') = Len(inbox[1].list)
             /\ \A k \in DOMAIN inbox[1].list :
                   /\ events'[k].type = "Livedata"
                   /\ events'[k].sensor_id = inbox[1].ids[1]
                   /\ events'[k].metric_id = inbox[1].list[k].metric_id
                   /\ events'[k].value = inbox[1].list[k].value]_vars
    /\ AcceptFeedsWindow

\* ------------------------------------------------------------------- C21, C22

\* The step is Handler<MqttEvent>::handle taking a message whose body does not
\* deserialize or that came on an error topic.
FaultyStep ==
    /\ inbox # <<>>
    /\ inbox' = Tail(inbox)
    /\ inbox[1].type = "MqttEvent"
    /\ inbox[1].body = "malformed" \/ inbox[1].on = "error"

\* An ErrorResponse on an error topic is handled by emitting Error with its
\* message and code, the store staying as it was.
ErrorReplyEmitsError ==
    [][(FaultyStep /\ inbox[1].on = "error" /\ inbox[1].body = "parsed")
       => /\ events' = <<Error(inbox[1].text, inbox[1].code)>>
          /\ sensors' = sensors]_vars

\* C21: handling a message that is malformed or came on an error topic emits
\* an Error event to the subscribers; no such message is dropped without one.
C21_ErrorEmitted ==
    [][FaultyStep => \E i \in DOMAIN events' : events'[i].type = "Error"]_vars

\* The message cannot be applied: its body does not deserialize, it is a
\* livedata body without a timestamp, its topic is shorter than the connector
\* prefix, or it names a sensor that is not cached.
Offending(store, e) ==
    \/ e.body = "malformed"
    \/ e.on = "short"
    \/ e.scheme = "Livedata" /\ ~e.timestamp.some
    \/ e.ids # <<>> /\ e.ids[1] \notin DOMAIN store

\* C22: the handler returns from every offending message with the store as it
\* was and the actor still alive to handle the messages that follow.
C22_NeverTerminates ==
    [][(inbox # <<>> /\ inbox' = Tail(inbox) /\ inbox[1].type = "MqttEvent"
        /\ Offending(sensors, inbox[1]))
       => ~crashed' /\ sensors' = sensors]_vars

\* Apart from the two panics every offending message leaves the store as it was.
OffendingLeavesStore ==
    [][(inbox # <<>> /\ inbox' = Tail(inbox) /\ inbox[1].type = "MqttEvent"
        /\ Offending(sensors, inbox[1]))
       => sensors' = sensors]_vars

\* ------------------------------------------------------------------- C23, C24

\* The number of samples of a run of pushes: one more than a window holds.
MaxPushed == 51

\* The Livedata event of one sample of (s1, m1).
Sample(ts, v) == Livedata("s1", "m1", Integer(v), ts)

TheWindow == <<"s1", "m1">>

\* Samples with the timestamps 1..MaxPushed in ascending order, the value of
\* each its timestamp.
Ascending == [i \in 1..MaxPushed |-> Sample(i, i)]

\* The ascending run with the sample of timestamp i pushed as the p-th instead.
Moved(i, p) ==
    LET rest == SelectSeq(Ascending, LAMBDA e : e.timestamp # i)
    IN SubSeq(rest, 1, p - 1) \o <<Sample(i, i)>> \o SubSeq(rest, p, Len(rest))

\* The ascending run with one more sample, of timestamp i and value 0, pushed as
\* the p-th.
Repeated(i, p) ==
    SubSeq(Ascending, 1, p - 1) \o <<Sample(i, 0)>> \o SubSeq(Ascending, p, MaxPushed)

\* The ascending run with the value of the sample of timestamp i below zero.
Lowered(i) == [Ascending EXCEPT ![i] = Sample(i, 0 - i)]

PushRuns ==
    {Moved(i, p) : i \in 1..MaxPushed, p \in 1..MaxPushed}
    \cup {Repeated(i, p) : i \in 1..MaxPushed, p \in 1..(MaxPushed + 1)}
    \cup {Lowered(i) : i \in 1..MaxPushed}

\* The UI accepting a run of livedata events of one metric, everything else at
\* rest.
InitWindow ==
    /\ InitCorrelator
    /\ revision = "actix"
    /\ InitStateActor
    /\ subscribed = {"ui"}
    /\ bus = <<>>
    /\ lagged = FALSE
    /\ loopAlive = TRUE
    /\ loop = LoopIdle
    /\ published = {}
    /\ owed = {}
    /\ uiInbox \in PushRuns
    /\ livedata = <<>>
    /\ topic_callbacks = <<>>

NextWindow == Handler_SensorStateEvent_handle

SpecWindow == InitWindow /\ [][NextWindow]_vars

\* Every window holds at most LIVEDATA_WINDOW_LIMIT samples and exposes them in
\* strictly ascending order of timestamp, as data_sorted has them.
WindowsInOrder ==
    \A k \in DOMAIN livedata :
        LET w == livedata[k] IN
        /\ Cardinality(DOMAIN w.data_sorted) <= LIVEDATA_WINDOW_LIMIT
        /\ Len(w.data) = Cardinality(DOMAIN w.data_sorted)
        /\ \A i \in DOMAIN w.data :
              /\ w.data[i][1] \in DOMAIN w.data_sorted
              /\ w.data[i][2] = w.data_sorted[w.data[i][1]]
              /\ i > 1 => w.data[i - 1][1] < w.data[i][1]

\* A push stores its value under its timestamp and changes the value of no
\* other timestamp that stays in the window.
LatestPushWins ==
    AcceptStep
    => LET event == uiInbox[1]
           key == <<event.sensor_id, event.metric_id>>
           after == livedata'[key].data_sorted
       IN /\ after[event.timestamp] = event.value.number
          /\ key \in DOMAIN livedata
             => \A t \in (DOMAIN after) \ {event.timestamp} :
                   /\ t \in DOMAIN livedata[key].data_sorted
                   /\ after[t] = livedata[key].data_sorted[t]

\* C23: after any sequence of pushes a window holds at most 50 samples, its
\* exposed data is strictly ascending by timestamp without duplicates, and a
\* timestamp pushed more than once holds the value of its latest push.
C23_BoundedSortedLatest ==
    /\ []WindowsInOrder
    /\ [][LatestPushWins]_vars

\* A full window that has evicted, after a timestamp was pushed a second time.
C23_Witness ==
    /\ uiInbox = <<>>
    /\ TheWindow \in DOMAIN livedata
    /\ LET w == livedata[TheWindow] IN
       /\ Len(w.data) = LIVEDATA_WINDOW_LIMIT
       /\ w.min_timestamp > 1
       /\ \E t \in DOMAIN w.data_sorted : w.data_sorted[t] = 0

\* Runs of MaxPushed samples with distinct timestamps: the ascending run and
\* every run that has one sample out of its place.
DistinctRuns == {Moved(i, p) : i \in 1..MaxPushed, p \in 1..MaxPushed}

InitDistinct ==
    /\ InitCorrelator
    /\ revision = "actix"
    /\ InitStateActor
    /\ subscribed = {"ui"}
    /\ bus = <<>>
    /\ lagged = FALSE
    /\ loopAlive = TRUE
    /\ loop = LoopIdle
    /\ published = {}
    /\ owed = {}
    /\ uiInbox \in DistinctRuns
    /\ livedata = <<>>
    /\ topic_callbacks = <<>>

SpecDistinct == InitDistinct /\ [][NextWindow]_vars

\* The highest LIVEDATA_WINDOW_LIMIT timestamps of the run.
Highest == (MaxPushed - LIVEDATA_WINDOW_LIMIT + 1)..MaxPushed

\* C24: once 51 samples with distinct timestamps have been pushed into an empty
\* window, in whatever order, the window holds exactly the 50 samples of the
\* highest timestamps, in ascending order of timestamp.
C24_FiftyHighest ==
    (uiInbox = <<>> /\ TheWindow \in DOMAIN livedata)
    => LET w == livedata[TheWindow] IN
       /\ DOMAIN w.data_sorted = Highest
       /\ w.data = [i \in 1..LIVEDATA_WINDOW_LIMIT |->
                       <<i + MaxPushed - LIVEDATA_WINDOW_LIMIT,
                         i + MaxPushed - LIVEDATA_WINDOW_LIMIT>>]

\* ------------------------------------------------------------------- C25, C26

\* The state actor's handlers can run whenever the actor has a message to take
\* or a list to go on with, whatever its subscribers hold unread.
WriterNeverWaits ==
    /\ (~crashed /\ ActorIdle /\ inbox # <<>> /\ inbox[NextIndex].type = "MqttEvent")
       => ENABLED Handler_MqttEvent_handle
    /\ handling # <<>> => ENABLED event_sensor_list

IsSuffix(s, all) ==
    /\ Len(s) <= Len(all)
    /\ s = SubSeq(all, Len(all) - Len(s) + 1, Len(all))

\* What the loop's receiver has still to receive changes in two ways only: the
\* loop receives its oldest event, or a handler's events are put behind it, each
\* once and in order; when the channel cannot hold them all it is the oldest
\* that go, and the receiver has lagged.
LosesOnlyOlder ==
    \/ bus' = bus /\ (lagged' = lagged)
    \/ bus # <<>> /\ bus' = Tail(bus) /\ (lagged' = lagged)
    \/ /\ IsSuffix(bus', bus \o events')
       /\ Len(bus') = IF Len(bus) + Len(events') <= MaxBuffered
                      THEN Len(bus) + Len(events') ELSE MaxBuffered
       /\ lagged' = (lagged \/ Len(bus) + Len(events') > MaxBuffered)

\* C25: emitting never makes the state actor wait, whatever the subscribers
\* have left unread; a subscriber that does not keep up loses the oldest events
\* only, and what it receives is each emitted event once, unaltered.
C25_EmitNeverBlocks ==
    /\ []WriterNeverWaits
    /\ [][LosesOnlyOlder]_vars

\* The loop has not received anything, the channel is full and has overwritten
\* events, and the state actor has handled all it was sent.
C25_Witness ==
    /\ lagged
    /\ Len(bus) = MaxBuffered
    /\ loopAlive
    /\ queue = <<>>
    /\ inbox = <<>>
    /\ handling = <<>>
    /\ sent > 1

\* What the loop has still to receive is, after every step, a closing part of
\* what it had to receive followed by the events the step emitted: events reach
\* it in the order of their emission, some of the oldest left out.
ReceivesInOrder ==
    \/ IsSuffix(bus', bus)
    \/ IsSuffix(bus', bus \o events') /\ events' # <<>>

\* The answer to the query the loop sent on receiving an event is the one over
\* the store as the messages enqueued before the query leave it, the message
\* that emitted the event among them.
QueryObservesMutation ==
    loop.pc = "resume" => loop.metric_ids = loop.expect

\* C26: a subscriber receives the events in the order of their emission, and a
\* query it sends after receiving an event is answered over a store that holds
\* the mutation the event came from.
C26_OrderedAndObserved ==
    /\ [][ReceivesInOrder]_vars
    /\ []QueryObservesMutation

\* The loop received SensorMetricsUpdated(S), sent its query and has the answer:
\* the metric ids of S, which a SensorList handled before had put into the store.
C26_Witness ==
    /\ loop.pc = "resume"
    /\ loop.metric_ids.some
    /\ loop.sensor_id \in DOMAIN sensors
    /\ sent = 3
    /\ inbox = <<>>

\* ------------------------------------------------------------------------ C27

\* The identifier sets a variant is rendered with, the nil identifier among them.
TopicIds == SensorIds \cup {"m1", "m2", Nil}

VariantIds(variant) ==
    CASE variant \in {"SensorList", "SensorCreate", "Ping"} -> {<<>>}
      [] variant = "MetricDescribe" -> {<<s, m>> : s \in TopicIds, m \in TopicIds}
      [] OTHER -> {<<s>> : s \in TopicIds}

\* Messages on the response and the error topic of every variant, as rendered.
Delivered ==
    UNION {UNION {{OnTopic(MqttScheme_get_topics(MqttScheme[i], ids).response,
                           MqttScheme[i], ids, "response"),
                   OnTopic(MqttScheme_get_topics(MqttScheme[i], ids).error,
                           MqttScheme[i], ids, "error")} :
                     ids \in VariantIds(MqttScheme[i])} :
              i \in DOMAIN MqttScheme}

\* The state actor handling one or two messages whose topics were rendered from
\* a scheme.
InitTopics ==
    /\ InitCorrelator
    /\ revision = "actix"
    /\ sensors = EmptyStore
    /\ inbox \in {<<a>> : a \in Delivered} \cup {<<a, b>> : a \in Delivered, b \in Delivered}
    /\ handling = <<>>
    /\ msg = NoMsg
    /\ events = <<>>
    /\ committed = sensors
    /\ reply = NoReply
    /\ sent = Len(inbox)
    /\ crashed = FALSE
    /\ InitClient

NextTopics == Handler_MqttEvent_handle

SpecTopics == InitTopics /\ [][NextTopics]_vars

\* The handler has taken a message of a rendered topic.
Parsed == "rendered" \in DOMAIN msg

\* C27: from the response and the error topic rendered for a variant and
\* identifiers that are not nil, the handler reads those identifiers in their
\* order and a pattern its index maps to that variant, on the kind of topic it
\* was.
C27_TopicRoundTrip ==
    (Parsed /\ \A i \in DOMAIN msg.rendered.ids : msg.rendered.ids[i] # Nil)
    => /\ msg.ids = msg.rendered.ids
       /\ msg.scheme = msg.rendered.scheme
       /\ msg.on = msg.rendered.which

\* The error topic of MetricDescribe(s1, m2) handled.
C27_Witness ==
    /\ Parsed
    /\ msg.rendered = [scheme |-> "MetricDescribe", ids |-> <<"s1", "m2">>, which |-> "error"]
    /\ msg.ids = <<"s1", "m2">>
    /\ events = <<>>

\* ------------------------------------------------------------------------ C28

\* Every cached sensor is kept under its own id and lists no metric id twice.
UniqueIds(store) ==
    \A s \in DOMAIN store :
        /\ store[s].sensor_id = s
        /\ \A i, j \in DOMAIN store[s].metrics :
              store[s].metrics[i].metric_id = store[s].metrics[j].metric_id => i = j

\* C28: whatever messages have been handled, every SensorId occurs once in the
\* cache and every MetricId once in the metric list of its sensor.
C28_UniqueIds == UniqueIds(sensors)

\* A message other than a describe reply that names another metric than its
\* topic leaves a store of unique ids one of unique ids.
OthersKeepUnique ==
    [][(inbox # <<>> /\ inbox' = Tail(inbox) /\ inbox[1] \notin Misdescribed
        /\ handling = <<>> /\ UniqueIds(sensors))
       => UniqueIds(sensors')]_vars

\* ------------------------------------------------------------------------ C29

\* The step is the UI's handler taking an event of type `type`.
UiStep(type) ==
    /\ uiInbox # <<>>
    /\ uiInbox' = Tail(uiInbox)
    /\ uiInbox[1].type = type

Without(windows, keys) == [k \in (DOMAIN windows) \ keys |-> windows[k]]

\* A window comes to be only with a numeric sample of its pair, which it holds.
CreatedBySample ==
    \A k \in (DOMAIN livedata') \ (DOMAIN livedata) :
        /\ UiStep("Livedata")
        /\ k = <<uiInbox[1].sensor_id, uiInbox[1].metric_id>>
        /\ uiInbox[1].value.variant # "String"
        /\ uiInbox[1].timestamp \in DOMAIN livedata'[k].data_sorted

\* SensorDeleted(S) removes the windows of the pairs of S and no other.
DropsTheSensor ==
    UiStep("SensorDeleted")
    => livedata' = Without(livedata, {k \in DOMAIN livedata : k[1] = uiInbox[1].sensor_id})

\* MetricDeleted(S, M) removes the window of (S, M) and no other.
DropsTheMetric ==
    UiStep("MetricDeleted")
    => livedata' = Without(livedata, {<<uiInbox[1].sensor_id, uiInbox[1].metric_id>>})

\* The two parts that hold of the code.
LazyAndSensorDropped == [][CreatedBySample /\ DropsTheSensor]_vars

\* C29: a window exists only from the first numeric sample of its pair on;
\* MetricDeleted removes the window of its pair and leaves every other window,
\* those of the other metrics of the sensor among them, as it was;
\* SensorDeleted removes the windows of the sensor's pairs.
C29_WindowLifecycle ==
    [][CreatedBySample /\ DropsTheMetric /\ DropsTheSensor]_vars

\* ------------------------------------------------------------------------ C30

\* C30: merging a listed sensor the store knows emits SensorNameChanged if the
\* cached name differs from the listed one and not otherwise, then one
\* MetricDeleted for every metric the list omits, then
\* ExistingLinkedSensorLoaded once, with or without changes before it.
C30_RelinkedLast ==
    [][(MergeStep /\ Head(handling).sensor_id \in DOMAIN sensors)
       => LET ls == Head(handling)
              S == ls.sensor_id
              emitted == SubSeq(events', Len(events) + 1, Len(events'))
              renamed == IF sensors[S].name # ls.name THEN 1 ELSE 0
              gone == metric_ids(sensors[S].metrics) \ ls.metrics
              last == renamed + Cardinality(gone) + 1
          IN /\ Len(emitted) = last
             /\ renamed = 1 => emitted[1] = SensorNameChanged(S, ls.name)
             /\ \A i \in (renamed + 1)..(last - 1) :
                   /\ emitted[i].type = "MetricDeleted"
                   /\ emitted[i].sensor_id = S
                   /\ emitted[i].metric_id \in gone
             /\ emitted[last] = ExistingLinkedSensorLoaded(ls)]_vars

\* A snapshot renamed a known sensor and dropped two of its metrics:
\* ExistingLinkedSensorLoaded came last.
C30_Witness ==
    /\ handling = <<>>
    /\ steps(msg)
    /\ Len(events) = 4
    /\ events[1].type = "SensorNameChanged"
    /\ events[2].type = "MetricDeleted"
    /\ events[3].type = "MetricDeleted"
    /\ events[4].type = "ExistingLinkedSensorLoaded"

\* ==================================== client/state.rs: SensorState, the
\* revision that keeps one callback per topic (topic_callbacks) under a RwLock.
\* Topics are written behind the connector prefix full_topic puts before them.

\* MqttRequest::get_topics; Uuid::to_mqtt gives the 32 hex digits
MqttRequest_get_topics(request, ids) ==
    LET sensor_id == IF ids = <<>> THEN Lit("") ELSE Hex(ids[1])
        metric_id == IF Len(ids) < 2 THEN Lit("") ELSE Hex(ids[2])
        sensor == Lit("sensor")
        metric == Lit("metric")
        info == Lit("info")
        error == Lit("error")
        inb == Lit("inbox")
    IN CASE request = "SensorList" ->
              [path |-> <<sensor, Lit("list")>>,
               response |-> <<Lit("inventory"), inb>>,
               error |-> <<Lit("inventory"), error, inb>>]
         [] request = "SensorCreate" ->
              [path |-> <<sensor, Lit("create")>>,
               response |-> <<sensor, inb>>,
               error |-> <<sensor, error, inb>>]
         [] request = "SensorUpdate" ->
              [path |-> <<sensor, sensor_id, Lit("update")>>,
               response |-> <<sensor, sensor_id, Lit("update"), info, inb>>,
               error |-> <<sensor, sensor_id, Lit("update"), error, inb>>]
         [] request = "SensorDelete" ->
              [path |-> <<sensor, sensor_id, Lit("delete")>>,
               response |-> <<sensor, sensor_id, Lit("delete"), info, inb>>,
               error |-> <<sensor, sensor_id, Lit("delete"), error, inb>>]
         [] request = "MetricDescribe" ->
              [path |-> <<sensor, sensor_id, metric, metric_id, Lit("inventory")>>,
               response |-> <<sensor, sensor_id, metric, metric_id, Lit("inventory"), inb>>,
               error |-> <<sensor, sensor_id, metric, metric_id, Lit("inventory"),
                           error, inb>>]
         [] request = "MetricCreate" ->
              [path |-> <<sensor, sensor_id, metric, Lit("create")>>,
               response |-> <<sensor, sensor_id, metric, inb>>,
               error |-> <<sensor, sensor_id, metric, error, inb>>]
         [] request = "MetricUpdate" ->
              [path |-> <<sensor, sensor_id, metric, Lit("update")>>,
               response |-> <<sensor, sensor_id, metric, Lit("update"), info, inb>>,
               error |-> <<sensor, sensor_id, metric, Lit("update"), error, inb>>]
         [] request = "MetricDelete" ->
              [path |-> <<sensor, sensor_id, metric, Lit("delete")>>,
               response |-> <<sensor, sensor_id, metric, Lit("delete"), info, inb>>,
               error |-> <<sensor, sensor_id, metric, error, inb>>]
         [] request = "PushValues" ->
              [path |-> <<sensor, sensor_id, metric, Lit("pushValues")>>,
               response |-> <<sensor, sensor_id, info, inb>>,
               error |-> <<sensor, sensor_id, error, inb>>]
         [] OTHER ->
              [path |-> <<Lit("ping")>>,
               response |-> <<Lit("ping"), info, inb>>,
               error |-> <<Lit("ping"), error, inb>>]

\* A registered callback: the function and the MqttResponse variant (Ok or Err)
\* its closure wraps the message in.
Callback(cb, response) == [cb |-> cb, response |-> response]

\* SensorState::assign_callback: the error topic first, then the response topic
assign_callback(callbacks, request, ids, cb) ==
    LET topics == MqttRequest_get_topics(request, ids) IN
    insert(insert(callbacks, topics.error, Callback(cb, "Err")),
           topics.response, Callback(cb, "Ok"))

\* unassign_callback that removes the response topic only.
unassign_callback_ResponseOnly(callbacks, request, ids) ==
    remove(callbacks, MqttRequest_get_topics(request, ids).response)

\* SensorState::unassign_callback
unassign_callback(callbacks, request, ids) ==
    LET topics == MqttRequest_get_topics(request, ids) IN
    remove(remove(callbacks, topics.response), topics.error)

\* SensorState::subscribe_to_sensor_events
subscribe_to_sensor_events(callbacks, sensor_id) ==
    LET c1 == assign_callback(callbacks, "SensorUpdate", <<sensor_id>>,
                              "cb_event_sensor_update")
        c2 == assign_callback(c1, "SensorDelete", <<sensor_id>>, "cb_event_sensor_delete")
        c3 == assign_callback(c2, "MetricCreate", <<sensor_id>>, "cb_event_metric_create")
        c4 == assign_callback(c3, "MetricUpdate", <<sensor_id>>, "cb_event_metric_update")
        c5 == assign_callback(c4, "MetricDelete", <<sensor_id>>, "cb_event_metric_delete")
        c6 == assign_callback(c5, "PushValues", <<sensor_id>>, "cb_event_push_values")
    IN insert(c6, <<Lit("sensor"), Hex(sensor_id), Lit("livedata")>>,
              Callback("cb_event_livedata", "Ok"))

\* SensorState::unsubscribe_from_sensor_events
unsubscribe_from_sensor_events(callbacks, sensor_id) ==
    LET c1 == unassign_callback(callbacks, "SensorUpdate", <<sensor_id>>)
        c2 == unassign_callback(c1, "SensorDelete", <<sensor_id>>)
        c3 == unassign_callback(c2, "MetricCreate", <<sensor_id>>)
        c4 == unassign_callback(c3, "MetricUpdate", <<sensor_id>>)
        c5 == unassign_callback(c4, "MetricDelete", <<sensor_id>>)
        c6 == unassign_callback(c5, "PushValues", <<sensor_id>>)
    IN remove(c6, <<Lit("sensors"), Hex(sensor_id), Lit("livedata")>>)

\* for metric_id in ..: assign_callback / unassign_callback of
\* MqttRequest::MetricDescribe { sensor_id, metric_id }
RECURSIVE assign_describe(_, _, _)
assign_describe(callbacks, sensor_id, ids) ==
    IF ids = {} THEN callbacks
    ELSE LET metric_id == CHOOSE m \in ids : TRUE IN
         assign_describe(assign_callback(callbacks, "MetricDescribe",
                                         <<sensor_id, metric_id>>,
                                         "cb_event_metric_describe"),
                         sensor_id, ids \ {metric_id})

RECURSIVE unassign_describe(_, _, _)
unassign_describe(callbacks, sensor_id, ids) ==
    IF ids = {} THEN callbacks
    ELSE LET metric_id == CHOOSE m \in ids : TRUE IN
         unassign_describe(unassign_callback(callbacks, "MetricDescribe",
                                             <<sensor_id, metric_id>>),
                           sensor_id, ids \ {metric_id})

\* SensorState as a callback sees and leaves it, with the events it emitted.
SensorState(store, callbacks, emitted) ==
    [sensors |-> store, topic_callbacks |-> callbacks, events |-> emitted]

\* SensorState::cb_event_sensor_list, `for linked_sensor in linked_sensors`:
\* the store is merged as merge_linked_sensor tells; for a known sensor the
\* describe callbacks of the deleted metrics are removed, for a new one its
\* callbacks and those of its linked metrics are assigned. `orders` gives, per
\* linked sensor, the order in which the HashSet hands out the deleted ids.
RECURSIVE cb_event_sensor_list(_, _, _)
cb_event_sensor_list(state, linked_sensors, orders) ==
    IF linked_sensors = <<>> THEN state
    ELSE LET linked_sensor == Head(linked_sensors)
             sensor_id == linked_sensor.sensor_id
             known == sensor_id \in DOMAIN state.sensors
             deleted == IF known
                        THEN deleted_metric_ids(state.sensors[sensor_id], linked_sensor)
                        ELSE {}
             order == SelectSeq(Head(orders), LAMBDA m : m \in deleted)
             merged == merge_linked_sensor(state.sensors, linked_sensor, order)
             callbacks ==
                 IF known
                 THEN unassign_describe(state.topic_callbacks, sensor_id, deleted)
                 ELSE assign_describe(
                          subscribe_to_sensor_events(state.topic_callbacks, sensor_id),
                          sensor_id, linked_sensor.metrics)
         IN cb_event_sensor_list(
                SensorState(merged.sensors, callbacks, state.events \o merged.events),
                Tail(linked_sensors), Tail(orders))

\* SensorState::cb_event_sensor_create
cb_event_sensor_create(state, e) ==
    SensorState(event_sensor_create(state.sensors, e).sensors,
                subscribe_to_sensor_events(state.topic_callbacks, e.sensor.sensor_id),
                event_sensor_create(state.sensors, e).events)

\* SensorState::cb_event_sensor_delete
cb_event_sensor_delete(state, e) ==
    IF e.ids # <<>> /\ e.text = "Sensor was deleted." /\ e.ids[1] \in DOMAIN state.sensors
    THEN LET sensor_id == e.ids[1] IN
         SensorState(remove(state.sensors, sensor_id),
                     unassign_describe(
                         unsubscribe_from_sensor_events(state.topic_callbacks, sensor_id),
                         sensor_id, metric_ids(state.sensors[sensor_id].metrics)),
                     <<SensorDeleted(sensor_id)>>)
    ELSE state

\* SensorState::cb_event_metric_create
cb_event_metric_create(state, e) ==
    IF e.ids = <<>> THEN state
    ELSE SensorState(state.sensors,
                     assign_describe(state.topic_callbacks, e.ids[1],
                                     {e.list[k].metric_id : k \in DOMAIN e.list}),
                     event_metric_create(state.sensors, e).events)

\* What the body of a message deserializes as; a callback that reads another
\* shape returns Err and changes nothing.
shape(message) == IF message.body = "malformed" THEN "none" ELSE message.scheme

\* SensorState::process_message: the callback registered under the topic, if
\* any, called with the topic and the message. The identifiers are those
\* MqttResponse::get_id reads from the topic.
process_message(state, message, orders) ==
    LET quiet == SensorState(state.sensors, state.topic_callbacks, <<>>) IN
    IF message.topic \notin DOMAIN state.topic_callbacks THEN quiet
    ELSE LET callback == state.topic_callbacks[message.topic].cb
             e == [message EXCEPT !.ids = extract_ids_and_pattern(message.topic).mqtt_ids]
             told(out) == SensorState(quiet.sensors, quiet.topic_callbacks, out.events)
         IN CASE callback = "cb_event_sensor_list" ->
                    IF shape(e) = "SensorList"
                    THEN cb_event_sensor_list(quiet, e.list, orders) ELSE quiet
              [] callback = "cb_event_sensor_create" ->
                    IF shape(e) = "SensorCreate"
                    THEN cb_event_sensor_create(quiet, e) ELSE quiet
              [] callback = "cb_event_sensor_update" ->
                    told(event_sensor_update(quiet.sensors, e))
              [] callback = "cb_event_sensor_delete" -> cb_event_sensor_delete(quiet, e)
              [] callback = "cb_event_metric_describe" ->
                    IF shape(e) = "MetricDescribe"
                    THEN LET out == event_metric_describe(quiet.sensors, e) IN
                         SensorState(out.sensors, quiet.topic_callbacks, out.events)
                    ELSE quiet
              [] callback = "cb_event_metric_create" ->
                    IF shape(e) = "MetricCreate"
                    THEN cb_event_metric_create(quiet, e) ELSE quiet
              [] callback = "cb_event_metric_update" ->
                    told(event_metric_update(quiet.sensors, e))
              [] callback = "cb_event_metric_delete" ->
                    told(event_metric_delete(quiet.sensors, e))
              [] callback = "cb_event_livedata" ->
                    IF shape(e) = "Livedata"
                    THEN told([events |->
                                 [k \in DOMAIN e.list |->
                                    [type |-> "Livedata", sensor_id |-> e.ids[1],
                                     metric_id |-> e.list[k].metric_id,
                                     value |-> e.list[k].value]]])
                    ELSE quiet
              [] OTHER -> quiet

\* SensorState::subscribe_to_mqtt_events: the callbacks held from the start
subscribe_to_mqtt_events ==
    assign_callback(assign_callback(<<>>, "SensorList", <<>>, "cb_event_sensor_list"),
                    "SensorCreate", <<>>, "cb_event_sensor_create")

\* A message the broker delivers under the subscription /v1.0/<connector>/#.
Topic(topic, e) ==
    [x \in DOMAIN e \cup {"topic"} |-> IF x = "topic" THEN topic ELSE e[x]]

Reply(request, ids, e) == Topic(MqttRequest_get_topics(request, ids).response, e)

ErrorOf(request, ids) ==
    Topic(MqttRequest_get_topics(request, ids).error,
          ErrorReply(request, ids, "Sensor not found", 404))

CallbackLinked ==
    {Sensor("s1", "Temp", ms) : ms \in {{}, {"m1"}, {"m1", "m2"}}}
    \cup {Sensor("s2", "Temp", {"m1"})}

CallbackMessages ==
    {Reply("SensorList", <<>>, MqttEvent("SensorList", <<>>, l, NoSensor, NoMetric, "")) :
        l \in Seqs(CallbackLinked, MaxListed)}
    \cup {Reply("SensorCreate", <<>>,
                MqttEvent("SensorCreate", <<>>, <<>>, Sensor("s2", "Temp", <<>>),
                          NoMetric, ""))}
    \cup {Reply(r[1], <<s>>, MqttEvent(r[1], <<>>, <<>>, NoSensor, NoMetric, r[2])) :
             s \in SensorIds,
             r \in {<<"SensorDelete", "Sensor was deleted.">>,
                    <<"SensorUpdate", "Sensor was changed.">>,
                    <<"MetricUpdate", "All metrics were successfully modified.">>,
                    <<"MetricDelete", "All metrics were successfully deleted.">>}}
    \cup {Reply("MetricDescribe", <<s, m>>,
                MqttEvent("MetricDescribe", <<>>, <<>>, NoSensor, SeedMetric(m), "")) :
             s \in SensorIds, m \in {"m1", "m2"}}
    \cup {Reply("MetricCreate", <<"s1">>,
                MqttEvent("MetricCreate", <<>>, <<CreateMetricResponsePayload(1, "m2")>>,
                          NoSensor, NoMetric, ""))}
    \cup {ErrorOf(r, <<"s1">>) : r \in {"MetricCreate", "MetricDelete", "SensorDelete"}}
    \cup {Topic(<<Lit("sensor"), Hex("s1"), Lit("livedata")>>,
                LivedataMessage("s1", <<PushMetricValueResponse("m1", Integer(1))>>,
                                Some(1)))}

\* The broker delivers a message and process_message runs under the write lock.
SensorState_process_message ==
    /\ sent < MaxItems
    /\ \E message \in CallbackMessages :
       \E orders \in IF message.scheme = "SensorList"
                     THEN [1..MaxListed -> Orders({"m1", "m2"})]
                     ELSE {[i \in 1..MaxListed |-> <<>>]} :
          LET out == process_message(SensorState(sensors, topic_callbacks, <<>>),
                                     message, orders)
          IN /\ sensors' = out.sensors
             /\ topic_callbacks' = out.topic_callbacks
             /\ events' = out.events
             /\ msg' = message
    /\ sent' = sent + 1
    /\ UNCHANGED <<corrVars, inbox, handling, committed, reply, crashed, clientVars>>

InitCallbacks ==
    /\ revision = "legacy"
    /\ connected = TRUE
    /\ workerAlive = TRUE
    /\ queue = <<>>
    /\ pc = [r \in Req |-> "idle"]
    /\ scheme = [r \in Req |-> "Ping"]
    /\ stream = [r \in Req |-> <<>>]
    /\ streamOwner = 0
    /\ got = [r \in Req |-> NoItem]
    /\ subs = {}
    /\ net = {}
    /\ result = [r \in Req |-> NoResult]
    /\ unsubCalled = [r \in Req |-> FALSE]
    /\ lostWhile = [r \in Req |-> FALSE]
    /\ oneWaySent = 0
    /\ InitStateActor
    /\ subscribed = {}
    /\ bus = <<>>
    /\ lagged = FALSE
    /\ loopAlive = TRUE
    /\ loop = LoopIdle
    /\ published = {}
    /\ owed = {}
    /\ uiInbox = <<>>
    /\ livedata = <<>>
    /\ topic_callbacks = subscribe_to_mqtt_events

NextCallbacks == SensorState_process_message

SpecCallbacks == InitCallbacks /\ [][NextCallbacks]_vars

\* =================================================== claims, topic callbacks
\* process_message has run for a SensorList reply that deserialized.
ListProcessed ==
    /\ sent' = sent + 1
    /\ msg'.topic = MqttRequest_get_topics("SensorList", <<>>).response
    /\ shape(msg') = "SensorList"

\* C31: once a snapshot has been processed, every metric id it lists for a
\* sensor, new or already known, that has no full representation in the cache
\* has interest registered in its MetricDescribe topic, so that the reply to
\* the describe request issued for it is taken and the metric gets loaded; a
\* metric that first appears on an already known sensor included.
C31_DescribeRegistered ==
    [][ListProcessed
       => \A k \in DOMAIN msg'.list :
            LET linked_sensor == msg'.list[k]
                S == linked_sensor.sensor_id
            IN \A M \in linked_sensor.metrics \ metric_ids(sensors'[S].metrics) :
                  MqttRequest_get_topics("MetricDescribe", <<S, M>>).response
                      \in DOMAIN topic_callbacks']_vars

\* The topics registered per metric and per sensor.
DescribeTopics(S, M) ==
    {MqttRequest_get_topics("MetricDescribe", <<S, M>>).response,
     MqttRequest_get_topics("MetricDescribe", <<S, M>>).error}

SensorTopics(S) ==
    UNION {{MqttRequest_get_topics(r, <<S>>).response,
            MqttRequest_get_topics(r, <<S>>).error} :
              r \in {"SensorUpdate", "SensorDelete", "MetricCreate", "MetricUpdate",
                     "MetricDelete", "PushValues"}}
    \cup {<<Lit("sensor"), Hex(S), Lit("livedata")>>}
    \cup UNION {DescribeTopics(S, M) : M \in MetricIds}

Emitted(event) == \E k \in DOMAIN events' : events'[k] = event

\* C32: once the deletion of a sensor has been processed none of the sensor's
\* update, delete, metric create, update and delete, push-values, livedata and
\* metric-describe topics has a callback, and once the deletion of a metric
\* has been processed neither has the metric's describe topic.
C32_CallbacksReleased ==
    [][sent' = sent + 1
       => \A S \in SensorIds :
            /\ Emitted(SensorDeleted(S))
                  => SensorTopics(S) \cap DOMAIN topic_callbacks' = {}
            /\ \A M \in MetricIds :
                  Emitted(MetricDeleted(S, M))
                     => DescribeTopics(S, M) \cap DOMAIN topic_callbacks' = {}]_vars

\* What does hold: the request callbacks of the deleted sensor and the describe
\* callbacks of its cached metrics are removed.
RequestCallbacksReleased ==
    [][sent' = sent + 1
       => \A S \in SensorIds :
            Emitted(SensorDeleted(S))
               => (SensorTopics(S) \cap DOMAIN topic_callbacks')
                     \subseteq {<<Lit("sensor"), Hex(S), Lit("livedata")>>}
                               \cup UNION {DescribeTopics(S, M) :
                                             M \in MetricIds \ metric_ids(sensors[S].metrics)}]_vars

\* What of a metric never changes: its id, its kind and the value type or
\* value unit of its kind.
Identity(metric) ==
    [metric_id |-> metric.metric_id, variant |-> metric.variant,
     value_type |-> metric.value_type, value_unit |-> metric.value_unit]

Identities(ms) == [i \in DOMAIN ms |-> Identity(ms[i])]

\* C33: no handler changes the metric_id, the value_type or the value_unit of a
\* cached metric or turns a Predefined metric into a Custom one or back: the
\* metrics of a sensor that stay cached over a handler's step keep all of
\* these, in their order, whatever the step does to names and annotations.
C33_IdentityKept ==
    [][\A S \in DOMAIN sensors \cap DOMAIN sensors' :
          LET kept == SelectSeq(Identities(sensors[S].metrics),
                                LAMBDA x : x.metric_id
                                             \in metric_ids(sensors'[S].metrics))
              after == Identities(sensors'[S].metrics)
          IN /\ Len(kept) <= Len(after)
             /\ SubSeq(after, 1, Len(kept)) = kept]_vars

\* A describe reply of another kind or value type than the cached metric's has
\* been handled and has renamed the metric.
C33_Witness ==
    /\ msg.scheme = "MetricDescribe"
    /\ msg.on = "response"
    /\ msg.body = "parsed"
    /\ Len(events) = 1
    /\ events[1].type = "MetricNameChanged"
    /\ msg.ids[1] \in DOMAIN sensors
    /\ \E i \in DOMAIN sensors[msg.ids[1]].metrics :
          LET cached == sensors[msg.ids[1]].metrics[i] IN
          /\ cached.metric_id = msg.ids[2]
          /\ cached.name = msg.metric.name
          /\ Identity(cached) # Identity(msg.metric)

\* C34: a sample whose timestamp a window of 50 entries already holds
\* overwrites the value of that entry and evicts nothing: the window holds the
\* same 50 timestamps after the push.
C34_DuplicateEvictsNothing ==
    [][(/\ AcceptStep
        /\ <<uiInbox[1].sensor_id, uiInbox[1].metric_id>> \in DOMAIN livedata)
       => LET event == uiInbox[1]
              key == <<event.sensor_id, event.metric_id>>
              before == livedata[key].data_sorted
              after == livedata'[key].data_sorted
          IN (/\ Cardinality(DOMAIN before) = LIVEDATA_WINDOW_LIMIT
              /\ event.timestamp \in DOMAIN before)
             => (/\ DOMAIN after = DOMAIN before
                 /\ after[event.timestamp] = event.value.number)]_vars

\* The values a window retains.
Retained(w) == {w.data_sorted[t] : t \in DOMAIN w.data_sorted}

\* max_value, min_timestamp, max_timestamp and data are those of the retained
\* set.
RecomputedButMin(w) ==
    /\ w.max_value = Greatest(Retained(w))
    /\ w.min_timestamp = Least(DOMAIN w.data_sorted)
    /\ w.max_timestamp = Greatest(DOMAIN w.data_sorted)
    /\ w.data = iter(w.data_sorted)

\* C35 as stated: after every push min_value and max_value are the smallest
\* and the largest retained value, min_timestamp and max_timestamp the smallest
\* and the largest retained timestamp, and data the retained pairs in ascending
\* order of timestamp.
C35_StatisticsOfRetained ==
    \A k \in DOMAIN livedata :
        /\ RecomputedButMin(livedata[k])
        /\ livedata[k].min_value = Least(Retained(livedata[k]))

\* C35, amended: after every push max_value, min_timestamp, max_timestamp and
\* data are those of the full retained set, and min_value is the smallest
\* retained value if that is zero or below and 0 if it is above zero.
C35_MinNotAboveZero ==
    \A k \in DOMAIN livedata :
        /\ RecomputedButMin(livedata[k])
        /\ livedata[k].min_value =
              IF Least(Retained(livedata[k])) > 0 THEN 0
              ELSE Least(Retained(livedata[k]))

\* A full window that has evicted and retains a value below zero.
C35_Witness ==
    /\ uiInbox = <<>>
    /\ TheWindow \in DOMAIN livedata
    /\ Len(livedata[TheWindow].data) = LIVEDATA_WINDOW_LIMIT
    /\ livedata[TheWindow].min_timestamp > 1
    /\ livedata[TheWindow].min_value < 0

\* C36: for every variant and every identifiers, the nil identifier included,
\* the success topic and the error topic rendered for them are distinct, by
\* MqttScheme::get_topics and by MqttRequest::get_topics, and a message on one
\* of the two is never taken for a message on the other.
C36_SuccessNotError ==
    Parsed
    => LET rendered == MqttScheme_get_topics(msg.rendered.scheme, msg.rendered.ids)
           requested == MqttRequest_get_topics(msg.rendered.scheme, msg.rendered.ids)
       IN /\ rendered.response # rendered.error
          /\ requested.response # requested.error
          /\ msg.topic = rendered.response => msg.on # "error"
          /\ msg.topic = rendered.error => msg.on # "response"

\* A message on the error topic of PushValues(s2), the success topic of which
\* differs from it in one level, taken as an error.
C36_Witness ==
    /\ Parsed
    /\ msg.rendered = [scheme |-> "PushValues", ids |-> <<"s2">>, which |-> "error"]
    /\ msg.topic = <<Lit("sensor"), Hex("s2"), Lit("error"), Lit("inbox")>>
    /\ msg.on = "error"
    /\ inbox = <<>>

\* ============================== SensorVisionClient: fire-and-forget commands
MaxCommands == 2

\* SensorVisionClient::message / raw_message: the scheme's action topic and the
\* payload handed to the worker as a OneWayMessage. `command` remembers the
\* call the message was made by.
message(variant, ids, command) ==
    /\ oneWaySent < MaxCommands
    /\ oneWaySent' = oneWaySent + 1
    /\ queue' = IF revision = "tokio" /\ ~workerAlive THEN queue
                ELSE Append(queue, [kind |-> "OneWayMessage", id |-> 0,
                                    scheme |-> variant, ids |-> ids,
                                    command |-> command])
    /\ UNCHANGED <<topic_callbacks, stateVars, clientVars, revision, connected, workerAlive,
                   pc, scheme, stream, streamOwner, got, subs, net, result, unsubCalled,
                   lostWhile>>

Command(name, sensor_id, metric_id) ==
    [name |-> name, sensor_id |-> sensor_id, metric_id |-> metric_id]

\* SensorVisionClient::load_sensors
load_sensors == message("SensorList", <<>>, Command("load_sensors", "", ""))

\* SensorVisionClient::delete_sensor
delete_sensor(sensor_id) ==
    message("SensorDelete", <<sensor_id>>, Command("delete_sensor", sensor_id, ""))

\* SensorVisionClient::update_metric / Handler<UpdateMetric>
update_metric(sensor_id, metric_id) ==
    message("MetricUpdate", <<sensor_id>>, Command("update_metric", sensor_id, metric_id))

\* SensorVisionClient::delete_metric / Handler<DeleteMetric>
delete_metric(sensor_id, metric_id) ==
    message("SensorDelete", <<sensor_id>>, Command("delete_metric", sensor_id, metric_id))

InitCommands == InitCorrelator /\ InitStateActor /\ InitClient

NextCommands ==
    \/ load_sensors
    \/ \E s \in SensorIds : delete_sensor(s)
    \/ \E s \in SensorIds, m \in MetricIds : update_metric(s, m)
    \/ \E s \in SensorIds, m \in MetricIds : delete_metric(s, m)
    \/ handle_command

SpecCommands == InitCommands /\ [][NextCommands]_vars

\* The worker takes the message of a command and publishes it.
Publishes(name) ==
    /\ queue # <<>>
    /\ queue' = Tail(queue)
    /\ "command" \in DOMAIN Head(queue)
    /\ Head(queue).command.name = name
    /\ message_ok

\* The action topic a published command went to.
ActionTopic(p) == MqttScheme_get_topics(p.scheme, p.ids).path

\* C37: the message of delete-metric for (S, M) is published on the MetricDelete
\* action topic of S, sensor/S/metric/delete, and on no other topic, the
\* SensorDelete action topic of S least of all.
C37_DeleteMetricTopic ==
    [][Publishes("delete_metric")
       => LET S == Head(queue).command.sensor_id IN
          /\ [scheme |-> "MetricDelete", ids |-> <<S>>] \in published'
          /\ \A p \in published' \ published :
                ActionTopic(p) = <<Lit("sensor"), Hex(S), Lit("metric"), Lit("delete")>>]_vars

\* What the other commands do: each is published on the action topic of its own
\* operation.
OthersOnOwnTopic ==
    [][/\ Publishes("delete_sensor")
          => \A p \in published' \ published :
                ActionTopic(p) = <<Lit("sensor"), Hex(Head(queue).command.sensor_id),
                                   Lit("delete")>>
       /\ Publishes("update_metric")
          => \A p \in published' \ published :
                ActionTopic(p) = <<Lit("sensor"), Hex(Head(queue).command.sensor_id),
                                   Lit("metric"), Lit("update")>>
       /\ Publishes("load_sensors")
          => \A p \in published' \ published :
                ActionTopic(p) = <<Lit("sensor"), Lit("list")>>]_vars

\* The callback subscribe_to_mqtt_events, subscribe_to_sensor_events and the
\* describe registrations assign for an operation.
CallbackOf(request) ==
    CASE request = "SensorList" -> "cb_event_sensor_list"
      [] request = "SensorCreate" -> "cb_event_sensor_create"
      [] request = "SensorUpdate" -> "cb_event_sensor_update"
      [] request = "SensorDelete" -> "cb_event_sensor_delete"
      [] request = "MetricDescribe" -> "cb_event_metric_describe"
      [] request = "MetricCreate" -> "cb_event_metric_create"
      [] request = "MetricUpdate" -> "cb_event_metric_update"
      [] request = "MetricDelete" -> "cb_event_metric_delete"
      [] OTHER -> "cb_event_push_values"

Registering == <<"SensorList", "SensorCreate", "SensorUpdate", "SensorDelete",
                 "MetricDescribe", "MetricCreate", "MetricUpdate", "MetricDelete",
                 "PushValues">>

\* C38: for any fixed identifiers no success or error topic of one operation
\* is a success or error topic of another, so every topic of the callback
\* registry holds the callback of the one operation it is a reply topic of:
\* registering the callbacks of one operation never overwrites those of
\* another, and the reverse index maps the two templates of every variant to
\* that variant.
C38_OneOperationPerTopic ==
    /\ \A i \in DOMAIN MqttScheme :
          /\ topic_schemes[get_templates(MqttScheme[i]).response] = MqttScheme[i]
          /\ topic_schemes[get_templates(MqttScheme[i]).error] = MqttScheme[i]
    /\ \A i \in DOMAIN Registering : \A ids \in VariantIds(Registering[i]) :
          LET topics == MqttRequest_get_topics(Registering[i], ids) IN
          \A topic \in {topics.response, topics.error} \cap DOMAIN topic_callbacks :
              topic_callbacks[topic].cb = CallbackOf(Registering[i])

\* The part of C38 that holds: the reverse index of scheme.rs keeps the twenty
\* templates apart.
IndexKeepsApart ==
    \A i \in DOMAIN MqttScheme :
        /\ topic_schemes[get_templates(MqttScheme[i]).response] = MqttScheme[i]
        /\ topic_schemes[get_templates(MqttScheme[i]).error] = MqttScheme[i]

\* C39: a subscriber that lagged and missed events goes on receiving: the
\* client's event-reaction loop is still running after the step in which it
\* finds that it has lagged, so that the events emitted afterwards still
\* trigger their requests.
C39_LaggedKeepsRunning ==
    [][("loop" \in subscribed /\ lagged /\ loopAlive) => loopAlive']_vars

\* C40: a fire-and-forget command whose publish fails does not stop the
\* request worker: over the step that takes the command the worker stays alive
\* and every call queued behind the command stays queued, to be taken and
\* processed in its turn.
C40_FailedPublishKeepsWorker ==
    [][(workerAlive /\ queue # <<>> /\ Head(queue).kind = "OneWayMessage")
       => /\ workerAlive'
          /\ \A r \in Req : pc[r] = "queued" => pc'[r] = "queued"]_vars

====
